---- MODULE Spec2Model ----
(***************************************************************************)
(* ML Model Builder backend (backend/app): the analyze / predict / delete  *)
(* handlers of main.py over the model directory and the JSON registry,     *)
(* the preprocessor and the selector of utils.py.                          *)
(*                                                                         *)
(* Conventions of the model                                                *)
(*  - a Python str is a sequence of one-character strings;                 *)
(*  - a metric is an integer number of metric units (exact arithmetic      *)
(*    stands for the floats of the code); the selector's weights 0.5, 0.3, *)
(*    0.2 and 0.6, 0.4 are kept as tenths;                                 *)
(*  - uuid.uuid4() yields an identifier that was never issued before;      *)
(*  - datetime.utcnow().isoformat() yields the token Timestamp.            *)
(***************************************************************************)
EXTENDS Integers, Sequences, FiniteSets, TLC

VARIABLES
    files,        \* MODELS_DIR: model id -> artifact stored by joblib.dump
    registry,     \* REGISTRY_FILE: model id -> registry entry
    nextId,       \* the next identifier uuid.uuid4() hands out
    last,         \* what the last handler run did and answered
    okPredicts,   \* history: model id -> number of predict calls answered 200
    deletedIds,   \* history: ids for which delete_model answered 'deleted'
    pc,           \* per worker: where the worker is inside its handler
    local,        \* per worker: the handler's local variables
    arg,          \* the input of the one call a single-call specification makes
    ret           \* what that call computed

vars == <<files, registry, nextId, last, okPredicts, deletedIds, pc, local, arg, ret>>

storeVars == <<files, registry, nextId, last, okPredicts, deletedIds>>
workerVars == <<pc, local>>
funVars == <<arg, ret>>

-----------------------------------------------------------------------------
(* Bounds of the model                                                     *)

MaxModels == 2      \* identifiers uuid4 hands out in one behaviour
MaxCalls == 2       \* successful predict calls in one behaviour
MaxCands == 2       \* candidates handed to the selector
MaxMetric == 1      \* largest metric value, in metric units
MaxRows == 2        \* rows of an uploaded table
MaxInputs == 2      \* input columns of an analyze request

-----------------------------------------------------------------------------
(* Generic helpers                                                         *)

None == [k |-> "None"]
Timestamp == "ts"

Range(f) == {f[x] : x \in DOMAIN f}

Min2(a, b) == IF a <= b THEN a ELSE b

SeqsUpTo(S, n) == UNION {[1..k -> S] : k \in 0..n}

\* dict.get(key, default)
Get(d, key, default) == IF key \in DOMAIN d THEN d[key] ELSE default

\* d with d[key] = value (the key is added when absent)
Put(d, key, value) == [x \in DOMAIN d \cup {key} |-> IF x = key THEN value ELSE d[x]]

\* d without key
Pop(d, key) == [x \in DOMAIN d \ {key} |-> d[x]]

EmptyDict == <<>>

-----------------------------------------------------------------------------
(* Strings and table cells                                                 *)

Alphabet ==
    <<" ", "0", "1", "2", "3", "4", "5", "6", "7", "8", "9", "N", "U",
      "a", "b", "c", "d", "e", "f", "g", "h", "i", "j", "k", "l", "m",
      "n", "o", "p", "q", "r", "s", "t", "u", "v", "w", "x", "y", "z">>

Ord(c) == CHOOSE i \in 1..Len(Alphabet) : Alphabet[i] = c

Digits == {"0", "1", "2", "3", "4", "5", "6", "7", "8", "9"}

DigitValue(c) == Ord(c) - 2

\* str.strip(): leading and trailing blanks removed
RECURSIVE LStrip(_)
LStrip(s) == IF s # <<>> /\ Head(s) = " " THEN LStrip(Tail(s)) ELSE s

RECURSIVE RStrip(_)
RStrip(s) ==
    IF s # <<>> /\ s[Len(s)] = " " THEN RStrip(SubSeq(s, 1, Len(s) - 1)) ELSE s

Strip(s) == RStrip(LStrip(s))

\* str < str
RECURSIVE LexLess(_, _)
LexLess(s, t) ==
    IF t = <<>> THEN FALSE
    ELSE IF s = <<>> THEN TRUE
    ELSE IF Head(s) # Head(t) THEN Ord(Head(s)) < Ord(Head(t))
    ELSE LexLess(Tail(s), Tail(t))

RECURSIVE DigitsValue(_)
DigitsValue(s) ==
    IF s = <<>> THEN 0
    ELSE DigitsValue(SubSeq(s, 1, Len(s) - 1)) * 10 + DigitValue(s[Len(s)])

RECURSIVE StrOfInt(_)
StrOfInt(n) ==
    IF n < 10 THEN <<Alphabet[n + 2]>>
    ELSE Append(StrOfInt(n \div 10), Alphabet[(n % 10) + 2])

\* a cell of a table or a value of a request
Num(n) == [k |-> "num", n |-> n, s |-> <<>>]
Str(s) == [k |-> "str", n |-> 0, s |-> s]
NaN == [k |-> "nan", n |-> 0, s |-> <<>>]

\* the value None of a request (a JSON null)
NoneValue == [k |-> "none", n |-> 0, s |-> <<>>]

\* str(value), Series.astype(str) on one cell
CellStr(c) ==
    IF c.k = "num" THEN StrOfInt(c.n)
    ELSE IF c.k = "none" THEN <<"N", "o", "n", "e">>
    ELSE c.s

\* pd.to_numeric(value): the number of a numeric cell or of a string of digits,
\* NaN for a missing value (NaN, None, the empty string) and, under
\* errors='coerce', for any other string
ToNumeric(c) ==
    IF c.k = "num" THEN c
    ELSE IF c.k = "str" /\ c.s # <<>> /\ \A i \in 1..Len(c.s) : c.s[i] \in Digits
        THEN Num(DigitsValue(c.s))
    ELSE NaN

\* pd.to_numeric(value, errors='raise') raises: on a string that is not empty and
\* not a number, never on a missing value
ToNumericRaises(c) ==
    c.k = "str" /\ c.s # <<>> /\ \E i \in 1..Len(c.s) : c.s[i] \notin Digits

\* Series.str.extract(r'([-+]?\d*\.?\d+)') on one string: the first run of digits
\* (the alphabet has no sign and no decimal point)
ExtractNumber(s) ==
    IF \A i \in 1..Len(s) : s[i] \notin Digits THEN NaN
    ELSE LET first == CHOOSE i \in 1..Len(s) :
                          s[i] \in Digits /\ \A j \in 1..(i - 1) : s[j] \notin Digits
             stop == CHOOSE j \in first..Len(s) :
                          /\ \A m \in first..j : s[m] \in Digits
                          /\ (j = Len(s) \/ s[j + 1] \notin Digits)
         IN  Str(SubSeq(s, first, stop))

\* sorted(set of strings), as a sequence
RECURSIVE SortStrings(_)
SortStrings(S) ==
    IF S = {} THEN <<>>
    ELSE LET least == CHOOSE x \in S : \A y \in S : x = y \/ LexLess(x, y)
         IN  <<least>> \o SortStrings(S \ {least})

IndexOf(seq, x) == CHOOSE i \in 1..Len(seq) : seq[i] = x

\* the values of sequence seq, as a set
Elems(seq) == {seq[i] : i \in 1..Len(seq)}

\* the subsequence of seq at the positions of set P, in order
RECURSIVE Keep(_, _, _)
Keep(seq, P, i) ==
    IF i > Len(seq) THEN <<>>
    ELSE (IF i \in P THEN <<seq[i]>> ELSE <<>>) \o Keep(seq, P, i + 1)

RECURSIVE SumSeq(_)
SumSeq(seq) == IF seq = <<>> THEN 0 ELSE Head(seq) + SumSeq(Tail(seq))

RECURSIVE SortInts(_)
SortInts(seq) ==
    IF seq = <<>> THEN <<>>
    ELSE LET i == CHOOSE m \in 1..Len(seq) : \A j \in 1..Len(seq) : seq[m] <= seq[j]
         IN  <<seq[i]>> \o SortInts(Keep(seq, (1..Len(seq)) \ {i}, 1))

-----------------------------------------------------------------------------
(* utils.preprocess_data                                                   *)
(* A table is a sequence of rows, a row a function from column names to    *)
(* cells. A working frame is a sequence of [i, x, y]: the index label i of *)
(* the row, its input cells x (by column) and its target cell y.           *)

\* the dtype pandas gives a column: object when some cell is a string
IsObject(df, col) == \E i \in 1..Len(df) : df[i][col].k = "str"

\* a ValueError of preprocess_data: the fixed part of its message and the column
\* the message names
Failure(message) ==
    [ok |-> FALSE, error |-> message, column |-> <<>>, X_train |-> <<>>, X_test |-> <<>>,
     y_train |-> <<>>, y_test |-> <<>>, label_encoders |-> <<>>, scaler |-> <<>>]

\* Series.median() of the numbers of a column (the mean of the middle two, rounded
\* down to a whole number, when their count is even); NaN on an empty column
Median(numbers) ==
    IF numbers = <<>> THEN NaN
    ELSE LET sorted == SortInts(numbers)
             n == Len(sorted)
         IN  IF n % 2 = 1 THEN Num(sorted[(n + 1) \div 2])
             ELSE Num((sorted[n \div 2] + sorted[n \div 2 + 1]) \div 2)

Count(seq, x) == Cardinality({i \in 1..Len(seq) : seq[i] = x})

\* Series.mode()[0] if not Series.mode().empty else 'Unknown'
ModeOrUnknown(strings) ==
    IF strings = <<>> THEN Str(<<"U", "n", "k", "n", "o", "w", "n">>)
    ELSE LET most == {x \in Elems(strings) :
                         \A y \in Elems(strings) : Count(strings, y) <= Count(strings, x)}
         IN  Str(SortStrings(most)[1])

\* the cells of column col of a frame that are not NaN
Present(frame, col) ==
    LET P == {r \in 1..Len(frame) : frame[r].x[col].k # "nan"}
    IN  [r \in 1..Cardinality(P) |-> Keep(frame, P, 1)[r].x[col]]

\* lines 34-38: X[col].fillna(...)
FillValue(df, frame, col) ==
    IF IsObject(df, col)
        THEN ModeOrUnknown([r \in 1..Len(Present(frame, col)) |->
                               CellStr(Present(frame, col)[r])])
        ELSE Median([r \in 1..Len(Present(frame, col)) |-> Present(frame, col)[r].n])

Impute(df, frame, cols) ==
    [r \in 1..Len(frame) |->
        [frame[r] EXCEPT !.x = [col \in cols |->
            IF frame[r].x[col].k = "nan" THEN FillValue(df, frame, col)
            ELSE frame[r].x[col]]]]

\* LabelEncoder().fit(values).classes_: the sorted distinct strings
Classes(cells) == SortStrings({CellStr(cells[r]) : r \in 1..Len(cells)})

\* the code counted from 1
TransformFromOne(classes, string) == IndexOf(classes, string)

\* LabelEncoder.transform([value])[0]
Transform(classes, string) == IndexOf(classes, string) - 1

\* lines 40-46: the encoders of the object columns
FitEncoders(df, frame, cols) ==
    [col \in {c \in cols : IsObject(df, c)} |->
        Classes([r \in 1..Len(frame) |-> frame[r].x[col]])]

Encode(frame, cols, label_encoders) ==
    [r \in 1..Len(frame) |->
        [frame[r] EXCEPT !.x = [col \in cols |->
            IF col \in DOMAIN label_encoders
                THEN Num(Transform(label_encoders[col], CellStr(frame[r].x[col])))
                ELSE frame[r].x[col]]]]

\* lines 49-53: the classification target as codes
EncodeTarget(frame) ==
    LET classes == Classes([r \in 1..Len(frame) |-> frame[r].y])
    IN  [r \in 1..Len(frame) |->
            [frame[r] EXCEPT !.y = Num(Transform(classes, CellStr(frame[r].y)))]]

ValidCount(cells) == Cardinality({r \in 1..Len(cells) : cells[r].k # "nan"})

\* the number of a value, or the number embedded in it when it is none
NumericTargetEitherRoute(df, frame, output_column) ==
    [r \in 1..Len(frame) |->
        IF ToNumeric(frame[r].y).k = "num" THEN ToNumeric(frame[r].y)
        ELSE ToNumeric(ExtractNumber(CellStr(frame[r].y)))]

\* lines 58-70: y_numeric, direct conversion first, extraction from the strings
\* only when no value converts and the column is of dtype object
NumericTarget(df, frame, output_column) ==
    LET direct == [r \in 1..Len(frame) |-> ToNumeric(frame[r].y)]
    IN  IF ValidCount(direct) = 0 /\ IsObject(df, output_column)
            THEN [r \in 1..Len(frame) |-> ToNumeric(ExtractNumber(CellStr(frame[r].y)))]
            ELSE direct

\* every row kept, whatever its target
KeepEveryRow(frame, y_numeric) ==
    [r \in 1..Len(frame) |-> [frame[r] EXCEPT !.y = y_numeric[r]]]

\* lines 80-82: rows of a valid target, with the converted target
KeepValid(frame, y_numeric) ==
    LET P == {r \in 1..Len(frame) : y_numeric[r].k # "nan"}
        kept == Keep(frame, P, 1)
        ys == Keep(y_numeric, P, 1)
    IN  [r \in 1..Len(kept) |-> [kept[r] EXCEPT !.y = ys[r]]]

RECURSIVE Gcd(_, _)
Gcd(a, b) == IF b = 0 THEN a ELSE Gcd(b, a % b)

\* the fraction a / b (b > 0) in lowest terms
Frac(a, b) ==
    LET g == Gcd(IF a < 0 THEN -a ELSE a, b)
    IN  IF a = 0 THEN <<0, 1>> ELSE <<a \div g, b \div g>>

\* StandardScaler().fit(X): mean_ and var_ of every column, as exact fractions
\* (scale_ is the square root of var_, and 1 where var_ is 0)
FitScaler(frame, cols) ==
    [col \in cols |->
        LET n == Len(frame)
            sum == SumSeq([r \in 1..n |-> frame[r].x[col].n])
            squares == SumSeq([r \in 1..n |-> frame[r].x[col].n * frame[r].x[col].n])
        IN  [mean |-> Frac(sum, n), var |-> Frac(n * squares - sum * sum, n * n)]]

\* a feature value as the model receives it: (value - mean) / scale; a value that
\* went through no scaler has mean 0 and scale 1 (var 0)
Scaled(value, mean, var) == [value |-> value, mean |-> mean, var |-> var]

Plain(value) == Scaled(value, Frac(0, 1), Frac(0, 1))

PlainRow(x) == [col \in DOMAIN x |-> Plain(x[col])]

\* StandardScaler.transform on one row of numbers
ScaleRow(scaler, x) ==
    [col \in DOMAIN x |-> Scaled(x[col], scaler[col].mean, scaler[col].var)]

\* ceil(0.2 * n): the size of the test part
TestSize(n) == (2 * n + 9) \div 10

ClassCounts(frame) ==
    {Cardinality({r \in 1..Len(frame) : frame[r].y = y}) :
        y \in {frame[r].y : r \in 1..Len(frame)}}

NumClasses(frame) == Cardinality({frame[r].y : r \in 1..Len(frame)})

\* the conditions on which train_test_split(..., stratify=y) raises ValueError
StratifyRaises(frame) ==
    \/ \E c \in ClassCounts(frame) : c < 2
    \/ TestSize(Len(frame)) < NumClasses(frame)
    \/ Len(frame) - TestSize(Len(frame)) < NumClasses(frame)

\* the orders a shuffle can put n rows in
Shuffles(n) == {f \in [1..n -> 1..n] : \A a, b \in 1..n : f[a] = f[b] => a = b}

\* shuffle: the order in which the generator seeded with 42 puts the row positions;
\* the first TestSize(n) of them that exist form the test part
TestRows(shuffle, n) ==
    LET order == SelectSeq(shuffle, LAMBDA q : q <= n)
    IN  {order[m] : m \in 1..Min2(TestSize(n), Len(order))}

\* The stages of preprocess_data, last first; each takes what the stages before
\* it computed.

\* lines 142-156: the check after the split, and the result
Returned(train, test, label_encoders, scaler) ==
    IF Len(train) = 0 \/ Len(test) = 0
        THEN Failure("Train/test split resulted in empty sets")
    ELSE [ok |-> TRUE, error |-> "", column |-> <<>>,
          X_train |-> [r \in 1..Len(train) |-> [i |-> train[r].i, x |-> train[r].x]],
          X_test |-> [r \in 1..Len(test) |-> [i |-> test[r].i, x |-> test[r].x]],
          y_train |-> [r \in 1..Len(train) |-> [i |-> train[r].i, y |-> train[r].y]],
          y_test |-> [r \in 1..Len(test) |-> [i |-> test[r].i, y |-> test[r].y]],
          label_encoders |-> label_encoders,
          scaler |-> scaler]

\* lines 133-140: the check before the split, and train_test_split
Split(scaled, test_rows, label_encoders, scaler, problem_type) ==
    IF Len(scaled) < 2
        THEN Failure("Not enough data for train/test split")
    ELSE IF problem_type = "classification" /\ StratifyRaises(scaled)
        THEN Failure("train_test_split: ValueError")
    ELSE Returned(Keep(scaled, (1..Len(scaled)) \ test_rows, 1),
                  Keep(scaled, test_rows, 1), label_encoders, scaler)

\* lines 120-125: X_scaled, with the target beside it
ScaleFrame(clean, cols, scaler) ==
    [r \in 1..Len(clean) |->
        [i |-> clean[r].i,
         x |-> ScaleRow(scaler, [col \in cols |-> clean[r].x[col].n]),
         y |-> clean[r].y.n]]

\* lines 116-140
ScaleAndSplit(clean, cols, label_encoders, scaler, problem_type, shuffle) ==
    Split(ScaleFrame(clean, cols, scaler), TestRows(shuffle, Len(clean)),
          label_encoders, scaler, problem_type)

\* line 93: X.notna().all(axis=1)
ValidRows(frame, cols) ==
    {r \in 1..Len(frame) : \A col \in cols : frame[r].x[col].k # "nan"}

\* lines 87-118
DropInvalid(targeted, cols, label_encoders, problem_type, shuffle) ==
    IF Len(targeted) = 0
        THEN Failure("No valid data remaining after preprocessing")
    ELSE IF ValidRows(targeted, cols) = {}
        THEN Failure("All rows have missing values in input columns")
    ELSE ScaleAndSplit(Keep(targeted, ValidRows(targeted, cols), 1), cols,
                       label_encoders,
                       FitScaler(Keep(targeted, ValidRows(targeted, cols), 1), cols),
                       problem_type, shuffle)

\* lines 49-85, with y_numeric of line 58 or 69
Target(encoded, y_numeric, cols, output_column, label_encoders, problem_type, shuffle) ==
    IF problem_type = "classification"
        THEN DropInvalid(EncodeTarget(encoded), cols, label_encoders, problem_type,
                         shuffle)
    ELSE IF ValidCount(y_numeric) = 0
        THEN [Failure("All values in the output column are invalid for regression")
                 EXCEPT !.column = output_column]
    ELSE DropInvalid(KeepValid(encoded, y_numeric), cols, label_encoders,
                     problem_type, shuffle)

\* lines 40-85, with the encoders of lines 41-46
Encoded(df, filled, cols, output_column, label_encoders, problem_type, shuffle) ==
    Target(Encode(filled, cols, label_encoders),
           NumericTarget(df, Encode(filled, cols, label_encoders), output_column),
           cols, output_column, label_encoders, problem_type, shuffle)

\* lines 29-46, with the frame of lines 23-27
Filled(df, data, cols, output_column, problem_type, shuffle) ==
    IF Len(data) = 0
        THEN Failure("Input or output column is empty")
    ELSE Encoded(df, Impute(df, data, cols), cols, output_column,
                 FitEncoders(df, Impute(df, data, cols), cols), problem_type, shuffle)

\* lines 20-27: the rows whose target is present, as a frame
Dropna(df, cols, output_column) ==
    LET P0 == {i \in 1..Len(df) : df[i][output_column].k # "nan"}
    IN  [r \in 1..Cardinality(P0) |->
            LET i == Keep([j \in 1..Len(df) |-> j], P0, 1)[r]
            IN  [i |-> i, x |-> [col \in cols |-> df[i][col]],
                 y |-> df[i][output_column]]]

preprocess_data(df, input_columns, output_column, problem_type, shuffle) ==
    Filled(df, Dropna(df, Elems(input_columns), output_column), Elems(input_columns),
           output_column, problem_type, shuffle)

-----------------------------------------------------------------------------
(* utils.select_best_algorithm                                             *)

\* the score with the accuracy subtracted
ClassificationScoreMinus(metrics) ==
    Get(metrics, "f1Score", 0) * 3
    + Get(metrics, "precision", 0) * 2
    - Get(metrics, "accuracy", 0) * 5

ClassificationScore(metrics) ==
    Get(metrics, "accuracy", 0) * 5
    + Get(metrics, "f1Score", 0) * 3
    + Get(metrics, "precision", 0) * 2

MaxOf(S) == CHOOSE x \in S : \A y \in S : y <= x

\* float('nan'), written as a number that no metric and no score takes
FloatNaN == 0 - 1

AllRmses(results) ==
    {Get(results[i].metrics, "rootMeanSquaredError", 0) : i \in 1..Len(results)}

\* max(all_rmses) if all_rmses else 1
MaxRmse(results) == IF results = <<>> THEN 1 ELSE MaxOf(AllRmses(results))

\* r2 * 0.6 + (1 - normalized_rmse) * 0.4, times 10 * max_rmse when max_rmse > 0
\* (one common positive factor for all the candidates of a call), times 10 otherwise
\* (a score with r2 NaN is NaN)
RegressionScore(metrics, max_rmse) ==
    LET r2 == Get(metrics, "r2Score", 0)
        rmse == Get(metrics, "rootMeanSquaredError", 0)
    IN  IF r2 = FloatNaN THEN FloatNaN
        ELSE IF max_rmse > 0
            THEN r2 * 6 * max_rmse + (max_rmse - Min2(rmse, max_rmse)) * 4
            ELSE r2 * 6

ScoreOf(results, i, problem_type) ==
    IF problem_type = "classification"
        THEN ClassificationScore(results[i].metrics)
        ELSE RegressionScore(results[i].metrics, MaxRmse(results))

\* the loop with ">=" for ">": the last maximal candidate wins
RECURSIVE SelectLoopLastWins(_, _, _, _)
SelectLoopLastWins(results, problem_type, i, best) ==
    IF i > Len(results) THEN best
    ELSE IF ScoreOf(results, i, problem_type) = FloatNaN
        THEN SelectLoopLastWins(results, problem_type, i + 1, best)
    ELSE IF best = 0 \/ ScoreOf(results, i, problem_type) >= ScoreOf(results, best, problem_type)
        THEN SelectLoopLastWins(results, problem_type, i + 1, i)
        ELSE SelectLoopLastWins(results, problem_type, i + 1, best)

\* the loop "for result in results: if score > best_score: ..." from position i on;
\* best = 0 stands for best_result = None, best_score = -inf; "NaN > best_score"
\* is False
RECURSIVE SelectLoop(_, _, _, _)
SelectLoop(results, problem_type, i, best) ==
    IF i > Len(results) THEN best
    ELSE IF ScoreOf(results, i, problem_type) = FloatNaN
        THEN SelectLoop(results, problem_type, i + 1, best)
    ELSE IF best = 0 \/ ScoreOf(results, i, problem_type) > ScoreOf(results, best, problem_type)
        THEN SelectLoop(results, problem_type, i + 1, i)
        ELSE SelectLoop(results, problem_type, i + 1, best)

Justification(metrics, problem_type) ==
    IF problem_type = "classification"
        THEN <<Get(metrics, "accuracy", 0), Get(metrics, "f1Score", 0),
               Get(metrics, "precision", 0)>>
        ELSE <<Get(metrics, "r2Score", 0), Get(metrics, "rootMeanSquaredError", 0),
               Get(metrics, "meanAbsoluteError", 0)>>

\* best_result.get(...) of lines 276-282 on best_result = None
AttributeError == [k |-> "AttributeError"]

select_best_algorithm(results, problem_type) ==
    IF results = <<>> THEN None
    ELSE IF SelectLoop(results, problem_type, 1, 0) = 0 THEN AttributeError
    ELSE LET best_result == results[SelectLoop(results, problem_type, 1, 0)]
         IN  [k |-> "best",
              algorithm |-> best_result.algorithm,
              metrics |-> best_result.metrics,
              trainingTime |-> best_result.trainingTime,
              justification |-> Justification(best_result.metrics, problem_type),
              model |-> best_result.model]

-----------------------------------------------------------------------------
(* The rosters and the candidates the selector is given                    *)

ClassificationRoster ==
    <<"Logistic Regression", "Random Forest", "Support Vector Machine",
      "K-Nearest Neighbors", "Naive Bayes", "Decision Tree", "Gradient Boosting">>

RegressionRoster ==
    <<"Linear Regression", "Ridge Regression", "Lasso Regression", "Random Forest",
      "Support Vector Machine", "K-Nearest Neighbors", "Decision Tree",
      "Gradient Boosting">>

Roster(problem_type) ==
    IF problem_type = "classification" THEN ClassificationRoster ELSE RegressionRoster

MetricValues == 0..MaxMetric

Dicts(keys, values) == UNION {[ks -> values] : ks \in SUBSET keys}

ClassificationMetrics == Dicts({"accuracy", "f1Score", "precision"}, MetricValues)

\* r2Score may be NaN
RegressionMetrics ==
    {m \in Dicts({"r2Score", "rootMeanSquaredError"}, MetricValues \cup {FloatNaN}) :
        "rootMeanSquaredError" \in DOMAIN m => m["rootMeanSquaredError"] # FloatNaN}

MetricsOf(problem_type) ==
    IF problem_type = "classification" THEN ClassificationMetrics ELSE RegressionMetrics

\* the fitted estimator of a runner; every classifier of the roster offers
\* predict_proba (SVC is built with probability=True), no regressor does
Model(problem_type, name) ==
    [algorithm |-> name, problem_type |-> problem_type,
     predict_proba |-> (problem_type = "classification")]

\* what a runner returns, with the metrics analyze_data computes for it
Candidate(problem_type, name, metrics) ==
    [algorithm |-> name, metrics |-> metrics, trainingTime |-> 1,
     model |-> Model(problem_type, name)]

\* a list of candidates: the first runners of the roster, with the metrics ms
CandidateList(problem_type, ms) ==
    [i \in 1..Len(ms) |-> Candidate(problem_type, Roster(problem_type)[i], ms[i])]

-----------------------------------------------------------------------------
(* The k of the k-nearest-neighbors runners                                *)

Max2(a, b) == IF a >= b THEN a ELSE b

\* int(np.sqrt(n)): the square root with its fraction cut off
IntSqrt(n) == CHOOSE r \in 0..n : r * r <= n /\ n < (r + 1) * (r + 1)

\* train_knn, train_knn_regressor: min(max(int(np.sqrt(len(X_train))), 3), 20)
n_neighbors(train_size) == Min2(Max2(IntSqrt(train_size), 3), 20)

-----------------------------------------------------------------------------
(* main.py: the state the handlers share                                   *)

Null == "null"

ColA == <<"a">>
ColB == <<"b">>
ColY == <<"y">>

\* upload_info["columns"] of every upload: header names, already stripped by
\* upload_csv
Columns == <<ColA, ColB, ColY>>

\* what a handler answered: the HTTP status, the detail of an HTTPException (or
\* the 'status' of the body), and the modelId of the body (0 when it has none)
Response(op, status, detail, modelId) ==
    [op |-> op, status |-> status, detail |-> detail, modelId |-> modelId]

\* load_model_registry: the document, or {} when reading it raises
load_model_registry(disk, readable) == IF readable THEN disk ELSE EmptyDict

\* save_model_registry: the document is replaced, unless writing raises (the
\* exception is printed and swallowed)
save_model_registry(disk, new, writable) == IF writable THEN new ELSE disk

\* the file-system calls of one handler run that succeed: reading the registry,
\* writing it, os.remove of the artifact
Faults == [load : BOOLEAN, save : BOOLEAN, remove : BOOLEAN]

NoFault == [load |-> TRUE, save |-> TRUE, remove |-> TRUE]

-----------------------------------------------------------------------------
(* The batch runners train_all_*_algorithms                                *)

\* the loop with "break" for "continue": the first runner that raises ends it
RECURSIVE TrainLoopBreaks(_, _, _, _)
TrainLoopBreaks(algorithms, raises, i, done) ==
    IF i > Len(algorithms) THEN done
    ELSE IF algorithms[i] \in raises
        THEN [done EXCEPT !.calls = Append(done.calls, algorithms[i])]
    ELSE TrainLoopBreaks(algorithms, raises, i + 1,
                         [calls |-> Append(done.calls, algorithms[i]),
                          results |-> Append(done.results, algorithms[i])])

\* the loop "for algo_func in algorithms: try ... except Exception: continue" from
\* position i on: the runners called so far and the results appended so far
RECURSIVE TrainLoop(_, _, _, _)
TrainLoop(algorithms, raises, i, done) ==
    IF i > Len(algorithms) THEN done
    ELSE TrainLoop(algorithms, raises, i + 1,
                   [calls |-> Append(done.calls, algorithms[i]),
                    results |-> IF algorithms[i] \in raises THEN done.results
                                ELSE Append(done.results, algorithms[i])])

\* train_all_classification_algorithms, train_all_regression_algorithms: the calls
\* made and the list returned
train_all_algorithms(problem_type, raises) ==
    TrainLoop(Roster(problem_type), raises, 1, [calls |-> <<>>, results |-> <<>>])

-----------------------------------------------------------------------------
(* main.analyze_data                                                       *)

\* normalized_available: stripped name -> column name
NormalizedAvailable ==
    [n \in {Strip(Columns[i]) : i \in 1..Len(Columns)} |->
        Columns[CHOOSE i \in 1..Len(Columns) : Strip(Columns[i]) = n]]

NormalizedInputs(request) ==
    [i \in 1..Len(request.inputColumns) |-> Strip(request.inputColumns[i])]

MissingInputs(request) ==
    SelectSeq(NormalizedInputs(request), LAMBDA c : c \notin DOMAIN NormalizedAvailable)

ActualInputColumns(request) ==
    LET found == SelectSeq(NormalizedInputs(request),
                           LAMBDA c : c \in DOMAIN NormalizedAvailable)
    IN  [i \in 1..Len(found) |-> NormalizedAvailable[found[i]]]

ActualOutputColumn(request) == NormalizedAvailable[Strip(request.outputColumn)]

\* line 259: request.outputColumn in request.inputColumns
OutputAmongInputs(request) == request.outputColumn \in Elems(request.inputColumns)

\* lines 223-260: the status and detail of the validation error, or status 0
Validate(request) ==
    IF ~request.upload.known
        THEN [status |-> 404, detail |-> "Upload not found"]
    ELSE IF request.problemType \notin {"classification", "regression"}
        THEN [status |-> 400, detail |-> "problemType must be 'classification' or 'regression'"]
    ELSE IF MissingInputs(request) # <<>>
        THEN [status |-> 400, detail |-> "Input columns not found in CSV"]
    ELSE IF Strip(request.outputColumn) \notin DOMAIN NormalizedAvailable
        THEN [status |-> 400, detail |-> "Output column not found in CSV"]
    ELSE IF OutputAmongInputs(request)
        THEN [status |-> 400, detail |-> "Output column cannot be in input columns"]
    ELSE [status |-> 0, detail |-> ""]

\* calculate_metrics_regression: the metrics measured on the test part; r2_score
\* is NaN on fewer than two samples
calculate_metrics_regression(y_true, measured) ==
    IF Len(y_true) < 2 THEN [measured EXCEPT !["r2Score"] = FloatNaN] ELSE measured

\* lines 331-340
ModelData(best, request, pre) ==
    [model |-> best.model,
     algorithm |-> best.algorithm,
     problem_type |-> request.problemType,
     input_columns |-> ActualInputColumns(request),
     output_column |-> ActualOutputColumn(request),
     metrics |-> best.metrics,
     label_encoders |-> pre.label_encoders,
     scaler |-> pre.scaler]

\* lines 347-369
ModelEntry(model_id, best, request) ==
    [modelId |-> model_id,
     createdAt |-> Timestamp,
     problemType |-> request.problemType,
     algorithm |-> best.algorithm,
     metrics |-> best.metrics,
     inputColumns |-> ActualInputColumns(request),
     outputColumn |-> ActualOutputColumn(request),
     usage |-> [totalCalls |-> 0, uniqueUsers |-> {}, lastUsed |-> Null],
     resourceMonitoring |-> <<>>,
     performanceHistory |-> <<[timestamp |-> Timestamp, metrics |-> best.metrics]>>]

\* line 278: the call of preprocess_data
Preprocessed(request, training) ==
    preprocess_data(request.upload.df, ActualInputColumns(request),
                    ActualOutputColumn(request), request.problemType, training.shuffle)

\* a column selected twice: df[input_columns] then holds two columns of one name
DuplicateInputs(request) ==
    LET inputs == ActualInputColumns(request)
    IN  \E i, j \in 1..Len(inputs) : i # j /\ inputs[i] = inputs[j]

\* lines 262-323: what the try block computes before it persists anything.
\* training.raises: the runners that raise; training.measured: the metrics the
\* metric calculator gives each of the others; training.shuffle: the split order.
\* The detail of the 500 of line 414 is "Error during analysis: " and the message
\* of the exception; it is modelled by the message.
Computed(request, training, pre, algorithm_results, calls) ==
    LET results_with_metrics ==
            [i \in 1..Len(algorithm_results) |->
                Candidate(request.problemType, algorithm_results[i],
                          IF request.problemType = "classification"
                              THEN training.measured[algorithm_results[i]]
                              ELSE calculate_metrics_regression(
                                       pre.y_test,
                                       training.measured[algorithm_results[i]]))]
        base == [status |-> 0, detail |-> "", preprocessed |-> TRUE, attempted |-> 0,
                 calls |-> <<>>, results |-> <<>>, pre |-> pre,
                 best |-> select_best_algorithm(results_with_metrics,
                                                request.problemType)]
    IN  IF DuplicateInputs(request)
            \* X[col] is a DataFrame when a column is selected twice: X[col].dtype
            \* raises AttributeError at line 35
            THEN [base EXCEPT !.status = 500, !.detail = "Error during analysis"]
        ELSE IF ~pre.ok
            \* ValueError, caught by "except Exception" at line 413
            THEN [base EXCEPT !.status = 500, !.detail = pre.error]
        ELSE IF Len(pre.X_train) = 0 \/ Len(pre.X_test) = 0
            THEN [base EXCEPT !.status = 400,
                              !.detail = "Not enough data after preprocessing"]
        ELSE IF algorithm_results = <<>>
            THEN [base EXCEPT !.status = 500, !.detail = "No algorithms could be trained",
                              !.attempted = Len(calls), !.calls = calls]
        ELSE IF base.best = AttributeError
            \* caught by "except Exception" at line 413
            THEN [base EXCEPT !.status = 500, !.detail = "Error during analysis",
                              !.attempted = Len(calls), !.calls = calls,
                              !.results = algorithm_results]
        ELSE IF base.best = None
            THEN [base EXCEPT !.status = 500,
                              !.detail = "Could not determine best algorithm",
                              !.attempted = Len(calls), !.calls = calls,
                              !.results = algorithm_results]
        ELSE [base EXCEPT !.attempted = Len(calls), !.calls = calls,
                          !.results = algorithm_results]

AnalyzeCompute(request, training) ==
    Computed(request, training, Preprocessed(request, training),
             train_all_algorithms(request.problemType, training.raises).results,
             train_all_algorithms(request.problemType, training.raises).calls)

\* lines 325-371, less the identifier: the artifact and the registry entry of a
\* run that raised nothing
Persisted(request, computed) ==
    IF computed.status # 0
        THEN [request |-> request, status |-> computed.status,
              detail |-> computed.detail, preprocessed |-> computed.preprocessed,
              attempted |-> computed.attempted, calls |-> computed.calls,
              results |-> computed.results, model_data |-> None,
              model_entry |-> None]
    ELSE [request |-> request, status |-> 0, detail |-> "", preprocessed |-> TRUE,
          attempted |-> computed.attempted, calls |-> computed.calls,
          results |-> computed.results,
          model_data |-> ModelData(computed.best, request, computed.pre),
          model_entry |-> ModelEntry(0, computed.best, request)]

\* lines 176-323 and 411-414: the handler up to the point where it persists.
\* status 0: nothing was raised, model_data and model_entry (less its id) are ready
AnalyzeRun(request, training) ==
    IF Validate(request).status # 0
        THEN [request |-> request, status |-> Validate(request).status,
              detail |-> Validate(request).detail, preprocessed |-> FALSE,
              attempted |-> 0, calls |-> <<>>, results |-> <<>>,
              model_data |-> None, model_entry |-> None]
    ELSE Persisted(request, AnalyzeCompute(request, training))

\* lines 325-371 and the ways out of the handler; run is AnalyzeRun of the request
analyze_data(run, faults) ==
    LET model_id == nextId
        loaded == load_model_registry(registry, faults.load)
    IN  IF run.status # 0
            THEN /\ last' = Response("analyze", run.status, run.detail, 0)
                 /\ UNCHANGED <<files, registry, nextId, okPredicts, deletedIds>>
        ELSE /\ nextId <= MaxModels
             /\ nextId' = nextId + 1
             /\ files' = Put(files, model_id, run.model_data)
             /\ registry' = save_model_registry(registry,
                                Put(loaded, model_id,
                                    [run.model_entry EXCEPT !.modelId = model_id]),
                                faults.save)
             /\ okPredicts' = Put(okPredicts, model_id, 0)
             /\ last' = Response("analyze", 200, "ok", model_id)
             /\ UNCHANGED deletedIds

-----------------------------------------------------------------------------
(* main.predict                                                            *)

\* the columns of input_columns, from position i on, whose value fails test
RECURSIVE FirstFailing(_, _, _)
FirstFailing(input_columns, Fails(_), i) ==
    IF i > Len(input_columns) THEN 0
    ELSE IF Fails(input_columns[i]) THEN i
    ELSE FirstFailing(input_columns, Fails, i + 1)

\* the HTTPException of a predict call: its status, the fixed part of its detail,
\* the column the detail names and, for a value outside a vocabulary, the values
\* the detail lists and whether '...' follows them
PredictFailure(status, detail, column) ==
    [status |-> status, detail |-> detail, column |-> column,
     valid_values |-> <<>>, ellipsis |-> FALSE,
     encoded |-> EmptyDict, nan_input |-> {}, model_input |-> EmptyDict,
     probabilities |-> FALSE, proba_input |-> EmptyDict]

ListedValues == 20

\* the whole vocabulary in the detail
ListedAll(available_values) == available_values

\* available_values[:20]
Listed(available_values) ==
    SubSeq(available_values, 1, Min2(Len(available_values), ListedValues))

\* lines 457-463: the value is not one of le.classes_
InvalidValue(classes, column) ==
    [PredictFailure(400, "Invalid value for column", column) EXCEPT
        !.valid_values = Listed(classes),
        !.ellipsis = Len(classes) > ListedValues]

\* lines 446-482: one column of a model with stored encoders
EncodeFails(model_data, features, col) ==
    IF col \in DOMAIN model_data.label_encoders
        THEN CellStr(features[col]) \notin Elems(model_data.label_encoders[col])
        ELSE ToNumericRaises(features[col])

EncodeValue(model_data, features, col) ==
    IF col \in DOMAIN model_data.label_encoders
        THEN Transform(model_data.label_encoders[col], CellStr(features[col]))
        ELSE ToNumeric(features[col]).n

\* the columns of the row that pd.to_numeric left NaN (the row holds 0 for them
\* in encoded and model_input)
NanInput(model_data, features) ==
    {col \in Elems(model_data.input_columns) :
        /\ col \notin DOMAIN model_data.label_encoders
        /\ ToNumeric(features[col]).k = "nan"}

\* probabilities whatever the artifact is
WithProbaAlways(model_data) == TRUE

\* line 512: the test that guards the predict_proba call
WithProba(model_data) ==
    /\ model_data.problem_type = "classification"
    /\ model_data.model.predict_proba

\* lines 427-513: the feature row, the prediction and the probabilities.
\* model_raises: model.predict raises on the row
PredictCompute(model_data, features, model_raises) ==
    LET input_columns == model_data.input_columns
        missing == FirstFailing(input_columns, LAMBDA c : c \notin DOMAIN features, 1)
        new_model == model_data.label_encoders # EmptyDict
        bad == IF new_model
                   THEN FirstFailing(input_columns,
                                     LAMBDA c : EncodeFails(model_data, features, c), 1)
                   ELSE FirstFailing(input_columns,
                                     LAMBDA c : ToNumericRaises(features[c]), 1)
        input_data == [col \in Elems(input_columns) |->
                          IF new_model THEN EncodeValue(model_data, features, col)
                          ELSE ToNumeric(features[col]).n]
        input_data_scaled ==
            IF new_model /\ model_data.scaler # EmptyDict
                THEN ScaleRow(model_data.scaler, input_data)
                ELSE PlainRow(input_data)
        with_proba == WithProba(model_data)
    IN  IF missing # 0
            THEN PredictFailure(400, "Missing feature", input_columns[missing])
        ELSE IF bad # 0 /\ new_model /\ input_columns[bad] \in DOMAIN model_data.label_encoders
            THEN InvalidValue(model_data.label_encoders[input_columns[bad]],
                              input_columns[bad])
        ELSE IF bad # 0
            THEN PredictFailure(400, "Column must be numeric", input_columns[bad])
        ELSE IF model_raises
            THEN PredictFailure(500, "Error making prediction", <<>>)
        ELSE [status |-> 200, detail |-> "ok", column |-> <<>>,
              valid_values |-> <<>>, ellipsis |-> FALSE,
              encoded |-> input_data,
              nan_input |-> NanInput(model_data, features),
              model_input |-> input_data_scaled,
              probabilities |-> with_proba,
              proba_input |-> IF with_proba THEN PlainRow(input_data) ELSE EmptyDict]

\* lines 524-545: the entry with one more call counted
UpdatedEntry(entry, userId) ==
    [entry EXCEPT
        !.usage = [totalCalls |-> entry.usage.totalCalls + 1,
                   uniqueUsers |-> IF userId # Null /\ userId # ""
                                      THEN entry.usage.uniqueUsers \cup {userId}
                                      ELSE entry.usage.uniqueUsers,
                   lastUsed |-> Timestamp],
        !.resourceMonitoring = Append(entry.resourceMonitoring, [timestamp |-> Timestamp])]

\* lines 524-546, with the registry of line 523 in loaded: the document on disk
\* after the handler
PredictDocumentAtomic(disk, loaded, modelId, userId, writable) ==
    IF modelId \in DOMAIN disk
        THEN save_model_registry(disk,
                 Put(disk, modelId, UpdatedEntry(disk[modelId], userId)), writable)
        ELSE disk

PredictDocument(disk, loaded, modelId, userId, writable) ==
    IF modelId \in DOMAIN loaded
        THEN save_model_registry(disk,
                 Put(loaded, modelId, UpdatedEntry(loaded[modelId], userId)), writable)
        ELSE disk

\* lines 523-546
UpdatedRegistry(disk, modelId, userId, faults) ==
    PredictDocument(disk, load_model_registry(disk, faults.load), modelId, userId,
                    faults.save)

\* the successful predict calls of a behaviour so far
TotalCalls(counts) ==
    LET ids == SortInts([i \in 1..Cardinality(DOMAIN counts) |->
                            CHOOSE id \in DOMAIN counts :
                                Cardinality({j \in DOMAIN counts : j < id}) = i - 1])
    IN  SumSeq([i \in 1..Len(ids) |-> counts[ids[i]]])

\* the handler with the registry update of lines 522-546 ahead of the prediction
predictCountsFirst(request, model_raises, faults) ==
    IF request.modelId \notin DOMAIN files
        THEN /\ last' = Response("predict", 404, "Model not found", request.modelId)
             /\ UNCHANGED <<files, registry, nextId, okPredicts, deletedIds>>
    ELSE LET computed == PredictCompute(files[request.modelId], request.features,
                                        model_raises)
         IN  /\ TotalCalls(okPredicts) < MaxCalls
             /\ registry' = UpdatedRegistry(registry, request.modelId,
                                            request.userId, faults)
             /\ okPredicts' = IF computed.status = 200
                                  THEN Put(okPredicts, request.modelId,
                                           Get(okPredicts, request.modelId, 0) + 1)
                                  ELSE okPredicts
             /\ last' = Response("predict", computed.status, computed.detail,
                                 request.modelId)
             /\ UNCHANGED <<files, nextId, deletedIds>>

\* lines 417-561
predict(request, model_raises, faults) ==
    IF request.modelId \notin DOMAIN files
        THEN /\ last' = Response("predict", 404, "Model not found", request.modelId)
             /\ UNCHANGED <<files, registry, nextId, okPredicts, deletedIds>>
    ELSE LET computed == PredictCompute(files[request.modelId], request.features,
                                        model_raises)
         IN  IF computed.status # 200
                 THEN /\ last' = Response("predict", computed.status, computed.detail,
                                          request.modelId)
                      /\ UNCHANGED <<files, registry, nextId, okPredicts, deletedIds>>
             ELSE /\ TotalCalls(okPredicts) < MaxCalls
                  /\ registry' = UpdatedRegistry(registry, request.modelId,
                                                 request.userId, faults)
                  /\ okPredicts' = Put(okPredicts, request.modelId,
                                       Get(okPredicts, request.modelId, 0) + 1)
                  /\ last' = Response("predict", 200, "ok", request.modelId)
                  /\ UNCHANGED <<files, nextId, deletedIds>>

-----------------------------------------------------------------------------
(* main.delete_model                                                       *)

\* delete_model without the os.remove of lines 645-650
delete_modelKeepsFile(model_id, faults) ==
    LET loaded == load_model_registry(registry, faults.load)
    IN  IF model_id \notin DOMAIN loaded /\ model_id \notin DOMAIN files
            THEN /\ last' = Response("delete", 404, "Model not found", model_id)
                 /\ UNCHANGED <<files, registry, nextId, okPredicts, deletedIds>>
        ELSE /\ registry' = IF model_id \in DOMAIN loaded
                                THEN save_model_registry(registry, Pop(loaded, model_id),
                                                         faults.save)
                                ELSE registry
             /\ deletedIds' = deletedIds \cup {model_id}
             /\ last' = Response("delete", 200, "deleted", model_id)
             /\ UNCHANGED <<files, nextId, okPredicts>>

\* lines 628-652
delete_model(model_id, faults) ==
    LET loaded == load_model_registry(registry, faults.load)
    IN  IF model_id \notin DOMAIN loaded /\ model_id \notin DOMAIN files
            THEN /\ last' = Response("delete", 404, "Model not found", model_id)
                 /\ UNCHANGED <<files, registry, nextId, okPredicts, deletedIds>>
        ELSE /\ registry' = IF model_id \in DOMAIN loaded
                                THEN save_model_registry(registry, Pop(loaded, model_id),
                                                         faults.save)
                                ELSE registry
             /\ files' = IF model_id \in DOMAIN files /\ faults.remove
                             THEN Pop(files, model_id)
                             ELSE files
             /\ deletedIds' = deletedIds \cup {model_id}
             /\ last' = Response("delete", 200, "deleted", model_id)
             /\ UNCHANGED <<nextId, okPredicts>>

-----------------------------------------------------------------------------
(* The inputs of the handlers, within the bounds                           *)

Row(a, b, y) == [col \in Elems(Columns) |->
                    IF col = ColA THEN a ELSE IF col = ColB THEN b ELSE y]

CellsA == {Num(1), NaN}
CellsB == {Str(<<"r">>), NaN}
CellsY == {Num(1), Str(<<"7", "k">>), Str(<<"k">>), NaN}

TableRows == {Row(a, b, y) : a \in CellsA, b \in CellsB, y \in CellsY}

Tables == SeqsUpTo(TableRows, MaxRows)

\* header names as a client may send them
RawNames == {ColA, ColB, ColY, <<"y", " ">>, <<"z">>}

InputLists == UNION {[1..n -> RawNames] : n \in 1..MaxInputs}

\* uploads_storage[uploadId] and the file it names, or no such upload
Upload(df) == [known |-> TRUE, df |-> df]

NoUpload == [known |-> FALSE, df |-> <<>>]

AnalyzeRequests ==
    [upload : {Upload(df) : df \in Tables} \cup {NoUpload},
     problemType : {"classification", "regression", "clustering"},
     inputColumns : InputLists,
     outputColumn : RawNames]

IdentityShuffle == [i \in 1..MaxRows |-> i]

\* the runners that may succeed in a run: the first MaxCands of the roster
Trainable(problem_type) == {Roster(problem_type)[i] : i \in 1..MaxCands}

AllRunners(problem_type) == Elems(Roster(problem_type))

FullMetrics(problem_type) ==
    IF problem_type = "classification"
        THEN [{"accuracy", "f1Score", "precision"} -> MetricValues]
        ELSE [{"r2Score", "rootMeanSquaredError"} -> MetricValues]

Trainings(problem_type) ==
    [raises : {AllRunners(problem_type) \ ok : ok \in SUBSET Trainable(problem_type)},
     measured : [Trainable(problem_type) -> FullMetrics(problem_type)],
     shuffle : {IdentityShuffle}]

\* the same metric value for every metric of a runner
UniformMetrics(problem_type, v) ==
    [key \in DOMAIN (CHOOSE m \in FullMetrics(problem_type) : TRUE) |-> v]

\* the smaller families the service specifications draw from
CleanRow == Row(Num(1), Str(<<"r">>), Num(1))

ServiceTables == {[i \in 1..n |-> CleanRow] : n \in (MaxRows - 1)..MaxRows}

\* a classification of the categorical column, a regression of the numeric one
ServiceRequests ==
    {r \in [upload : {Upload(df) : df \in ServiceTables},
            problemType : {"classification", "regression"},
            inputColumns : {<<ColA>>, <<ColB>>},
            outputColumn : {ColY}] :
        r.inputColumns = <<ColB>> <=> r.problemType = "classification"}

\* every runner fails, or the first of the roster succeeds, with any metric value
ServiceTrainings(problem_type) ==
    {t \in Trainings(problem_type) :
        /\ Cardinality(AllRunners(problem_type) \ t.raises) <= 1
        /\ Roster(problem_type)[2] \in t.raises
        /\ \A name \in Trainable(problem_type) :
              t.measured[name] = UniformMetrics(problem_type, MaxMetric)}

ClassificationTrainings == ServiceTrainings("classification")

RegressionTrainings == ServiceTrainings("regression")

\* the training outcomes of a request (a request of another problem type trains
\* nothing)
TrainingsFor(request) ==
    IF request.problemType = "regression" THEN RegressionTrainings
    ELSE ClassificationTrainings

UserIds == {Null, "u1"}

FeatureValues == {Num(1), Str(<<"r">>), Str(<<"z">>), NoneValue}

\* the feature maps over the columns cols, any of which may be left out
FeatureMaps(cols) == UNION {[present -> FeatureValues] : present \in SUBSET cols}

ModelIds == 1..MaxModels

-----------------------------------------------------------------------------
(* The service, one request at a time                                      *)

Init ==
    /\ files = EmptyDict
    /\ registry = EmptyDict
    /\ nextId = 1
    /\ last = Response("none", 0, "", 0)
    /\ okPredicts = EmptyDict
    /\ deletedIds = {}
    /\ pc = EmptyDict
    /\ local = EmptyDict
    /\ arg = None
    /\ ret = None

\* the runs of analyze_data on the service's requests, up to persisting
ServiceRuns ==
    UNION {{AnalyzeRun(request, training) :
                training \in TrainingsFor(request)} :
           request \in ServiceRequests}

AnalyzeCall ==
    \E run \in ServiceRuns :
    \E faults \in {f \in Faults : f.remove} :
        /\ analyze_data(run, faults)
        /\ UNCHANGED <<workerVars, funVars>>

PredictCall ==
    \E modelId \in ModelIds :
    \E features \in FeatureMaps(IF modelId \in DOMAIN files
                                   THEN Elems(files[modelId].input_columns) ELSE {}) :
    \E userId \in UserIds :
    \E model_raises \in BOOLEAN :
    \E faults \in {f \in Faults : f.remove /\ (model_raises => f = NoFault)} :
        /\ predict([modelId |-> modelId, features |-> features, userId |-> userId],
                   model_raises, faults)
        /\ UNCHANGED <<workerVars, funVars>>

DeleteCall ==
    \E model_id \in ModelIds :
    \E faults \in Faults :
        /\ delete_model(model_id, faults)
        /\ UNCHANGED <<workerVars, funVars>>

Next == AnalyzeCall \/ PredictCall \/ DeleteCall

Spec == Init /\ [][Next]_vars

-----------------------------------------------------------------------------
(* The service, one request at a time, when no file-system call fails      *)

AnalyzeCallSound ==
    \E run \in ServiceRuns :
        /\ analyze_data(run, NoFault)
        /\ UNCHANGED <<workerVars, funVars>>

PredictCallSound ==
    \E modelId \in ModelIds :
    \E features \in FeatureMaps(IF modelId \in DOMAIN files
                                   THEN Elems(files[modelId].input_columns) ELSE {}) :
    \E userId \in UserIds :
    \E model_raises \in BOOLEAN :
        /\ predict([modelId |-> modelId, features |-> features, userId |-> userId],
                   model_raises, NoFault)
        /\ UNCHANGED <<workerVars, funVars>>

DeleteCallSound ==
    \E model_id \in ModelIds :
        /\ delete_model(model_id, NoFault)
        /\ UNCHANGED <<workerVars, funVars>>

SoundNext == AnalyzeCallSound \/ PredictCallSound \/ DeleteCallSound

SpecSound == Init /\ [][SoundNext]_vars

-----------------------------------------------------------------------------
(* The selector on its own, on every candidate list within the bounds      *)

SelInit ==
    /\ files = EmptyDict /\ registry = EmptyDict /\ nextId = 1
    /\ last = Response("none", 0, "", 0) /\ okPredicts = EmptyDict /\ deletedIds = {}
    /\ pc = EmptyDict /\ local = EmptyDict
    /\ \E problem_type \in {"classification", "regression"} :
       \E n \in 0..MaxCands :
       \E ms \in [1..n -> MetricsOf(problem_type)] :
          arg = [results |-> CandidateList(problem_type, ms),
                 problem_type |-> problem_type]
    /\ ret = [k |-> "pending"]

SelectBest ==
    /\ ret.k = "pending"
    /\ ret' = select_best_algorithm(arg.results, arg.problem_type)
    /\ UNCHANGED <<arg, storeVars, workerVars>>

SelNext == SelectBest

SpecSel == SelInit /\ [][SelNext]_vars

-----------------------------------------------------------------------------
(* preprocess_data on its own, on every table within the bounds            *)

MaxPreRows == 3     \* rows of a table handed to preprocess_data

PreTables == SeqsUpTo(TableRows, MaxPreRows)

\* the orders the split may put the rows in: as they are, or reversed
PreShuffles ==
    {[i \in 1..MaxPreRows |-> i], [i \in 1..MaxPreRows |-> MaxPreRows + 1 - i]}

PreInit ==
    /\ files = EmptyDict /\ registry = EmptyDict /\ nextId = 1
    /\ last = Response("none", 0, "", 0) /\ okPredicts = EmptyDict /\ deletedIds = {}
    /\ pc = EmptyDict /\ local = EmptyDict
    /\ \E df \in PreTables :
       \E input_columns \in {<<ColA>>, <<ColA, ColB>>} :
       \E problem_type \in {"classification", "regression"} :
       \E shuffle \in PreShuffles :
          arg = [df |-> df, input_columns |-> input_columns, output_column |-> ColY,
                 problem_type |-> problem_type, shuffle |-> shuffle]
    /\ ret = [k |-> "pending"]

PreprocessOnce ==
    /\ ret.k = "pending"
    /\ ret' = [k |-> "preprocessed",
               out |-> preprocess_data(arg.df, arg.input_columns, arg.output_column,
                                       arg.problem_type, arg.shuffle)]
    /\ UNCHANGED <<arg, storeVars, workerVars>>

PreNext == PreprocessOnce

SpecPre == PreInit /\ [][PreNext]_vars

-----------------------------------------------------------------------------
(* The k-nearest-neighbors runners on every training-set size              *)

MaxTrainSize == 450     \* rows of a training set

KnnInit ==
    /\ files = EmptyDict /\ registry = EmptyDict /\ nextId = 1
    /\ last = Response("none", 0, "", 0) /\ okPredicts = EmptyDict /\ deletedIds = {}
    /\ pc = EmptyDict /\ local = EmptyDict
    /\ \E runner \in {"train_knn", "train_knn_regressor"} :
       \E train_size \in 1..MaxTrainSize :
          arg = [runner |-> runner, train_size |-> train_size]
    /\ ret = [k |-> "pending"]

\* the runner builds its estimator
KnnBuild ==
    /\ ret.k = "pending"
    /\ ret' = [k |-> "estimator", n_neighbors |-> n_neighbors(arg.train_size)]
    /\ UNCHANGED <<arg, storeVars, workerVars>>

KnnNext == KnnBuild

SpecKnn == KnnInit /\ [][KnnNext]_vars

-----------------------------------------------------------------------------
(* The selector before and after one candidate's dominant metric is raised *)

DominantMetric(problem_type) ==
    IF problem_type = "classification" THEN "accuracy" ELSE "r2Score"

RaiseInit ==
    /\ files = EmptyDict /\ registry = EmptyDict /\ nextId = 1
    /\ last = Response("none", 0, "", 0) /\ okPredicts = EmptyDict /\ deletedIds = {}
    /\ pc = EmptyDict
    /\ local = [raised |-> 0]
    /\ \E problem_type \in {"classification", "regression"} :
       \E n \in 1..MaxCands :
       \E ms \in [1..n -> MetricsOf(problem_type)] :
          arg = [results |-> CandidateList(problem_type, ms),
                 problem_type |-> problem_type]
    /\ ret = [k |-> "pending"]

\* the caller hands the selector the same list again, with the dominant metric of
\* candidate i (a number, 0 when the key is missing) replaced by a larger one
RaiseMetric ==
    /\ ret.k # "pending"
    /\ local.raised = 0
    /\ \E i \in 1..Len(arg.results) :
       \E v \in MetricValues :
          LET key == DominantMetric(arg.problem_type)
              old == Get(arg.results[i].metrics, key, 0)
          IN  /\ old # FloatNaN
              /\ v > old
              /\ arg' = [arg EXCEPT !.results[i].metrics = Put(@, key, v)]
              /\ local' = [raised |-> i, before |-> arg.results, selected |-> ret]
    /\ ret' = [k |-> "pending"]
    /\ UNCHANGED <<storeVars, pc>>

RaiseNext == SelectBest \/ RaiseMetric

SpecRaise == RaiseInit /\ [][RaiseNext]_vars

-----------------------------------------------------------------------------
(* One analyze call on an empty store, on every request within the bounds  *)

\* the uploaded tables of the analyze cases
AnalyzeTables ==
    {df \in Tables : \A i \in 1..Len(df) : df[i][ColB] = Str(<<"r">>)
                                          /\ df[i][ColY] # Str(<<"7", "k">>)}

AnalyzeCaseRequests ==
    [upload : {Upload(df) : df \in AnalyzeTables} \cup {NoUpload},
     problemType : {"classification", "regression", "clustering"},
     inputColumns : InputLists,
     outputColumn : RawNames]

AnaInit ==
    /\ files = EmptyDict /\ registry = EmptyDict /\ nextId = 1
    /\ last = Response("none", 0, "", 0) /\ okPredicts = EmptyDict /\ deletedIds = {}
    /\ pc = EmptyDict /\ local = EmptyDict
    /\ \E request \in AnalyzeCaseRequests :
       \E training \in TrainingsFor(request) :
          arg = [request |-> request, training |-> training]
    /\ ret = [k |-> "pending"]

AnalyzeOnce ==
    /\ ret.k = "pending"
    /\ \E faults \in {f \in Faults : f.remove} :
          LET run == AnalyzeRun(arg.request, arg.training)
          IN  /\ analyze_data(run, faults)
              /\ ret' = [k |-> "run", preprocessed |-> run.preprocessed,
                         attempted |-> run.attempted, calls |-> run.calls,
                         results |-> run.results]
    /\ UNCHANGED <<arg, workerVars>>

AnaNext == AnalyzeOnce

SpecAnalyze == AnaInit /\ [][AnaNext]_vars

-----------------------------------------------------------------------------
(* One analyze call on a clean table, with every outcome of the runners    *)

\* any runner may raise; the others get the same metrics
RosterTrainings(problem_type) ==
    [raises : SUBSET AllRunners(problem_type),
     measured : {[name \in AllRunners(problem_type) |->
                     UniformMetrics(problem_type, MaxMetric)]},
     shuffle : {IdentityShuffle}]

TrainInit ==
    /\ files = EmptyDict /\ registry = EmptyDict /\ nextId = 1
    /\ last = Response("none", 0, "", 0) /\ okPredicts = EmptyDict /\ deletedIds = {}
    /\ pc = EmptyDict /\ local = EmptyDict
    /\ \E request \in ServiceRequests :
       \E training \in RosterTrainings(request.problemType) :
          arg = [request |-> request, training |-> training]
    /\ ret = [k |-> "pending"]

SpecTrain == TrainInit /\ [][AnaNext]_vars

-----------------------------------------------------------------------------
(* One predict call on a store that holds the model of one analyze call    *)

\* the analyze calls that trained the model: full tables, inputs of either or
\* both column types
WideRows == 21      \* rows of the table whose categorical column never repeats

\* a table with one category per row, more categories than a detail lists
WideTable ==
    [i \in 1..WideRows |-> Row(Num(1), Str(<<Alphabet[13 + i]>>), Num(1))]

WideRequest ==
    [upload |-> Upload(WideTable), problemType |-> "regression",
     inputColumns |-> <<ColB>>, outputColumn |-> ColY]

\* the first runner of the roster succeeds, the rows keep their order
WideTraining ==
    [raises |-> AllRunners("regression") \ {Roster("regression")[1]},
     measured |-> [name \in Trainable("regression") |->
                      UniformMetrics("regression", MaxMetric)],
     shuffle |-> [i \in 1..WideRows |-> i]]

PredictRuns ==
    {AnalyzeRun(WideRequest, WideTraining)} \cup
    {run \in UNION {{AnalyzeRun(request, training) : training \in TrainingsFor(request)} :
                    request \in [upload : {Upload(df) : df \in {t \in AnalyzeTables :
                                                                 Len(t) = MaxRows}},
                                 problemType : {"classification", "regression"},
                                 inputColumns : {<<ColA>>, <<ColB>>, <<ColA, ColB>>},
                                 outputColumn : {ColY}]} :
        run.status = 0}

PredInit ==
    /\ \E run \in PredictRuns :
          /\ files = Put(EmptyDict, 1, run.model_data)
          /\ registry = Put(EmptyDict, 1, [run.model_entry EXCEPT !.modelId = 1])
          /\ \E features \in FeatureMaps(Elems(run.model_data.input_columns)) :
             \E userId \in UserIds :
                arg = [modelId |-> 1, features |-> features, userId |-> userId]
    /\ nextId = 2
    /\ last = Response("analyze", 200, "ok", 1)
    /\ okPredicts = Put(EmptyDict, 1, 0)
    /\ deletedIds = {}
    /\ pc = EmptyDict /\ local = EmptyDict
    /\ ret = [k |-> "pending"]

PredictOnce ==
    /\ ret.k = "pending"
    /\ \E model_raises \in BOOLEAN :
       \E faults \in {f \in Faults : f.remove /\ (model_raises => f = NoFault)} :
          /\ predict(arg, model_raises, faults)
          /\ ret' = [k |-> "predicted",
                     out |-> PredictCompute(files[arg.modelId], arg.features,
                                            model_raises)]
    /\ UNCHANGED <<arg, workerVars>>

PredNext == PredictOnce

SpecPredict == PredInit /\ [][PredNext]_vars

-----------------------------------------------------------------------------
(* One predict call on the model of a table with several categories        *)

\* rows of two categories, with missing categories and missing targets
CategoryRows ==
    {Row(Num(1), b, y) : b \in {Str(<<"r">>), Str(<<"s">>), NaN}, y \in {Num(1), NaN}}

CategoryTables == {df \in SeqsUpTo(CategoryRows, MaxPreRows) : Len(df) >= 2}

\* a classification by the categorical column, alone or after the numeric one;
\* the first runner of the roster succeeds
CategoryRuns ==
    {run \in {AnalyzeRun([upload |-> Upload(df), problemType |-> "classification",
                          inputColumns |-> inputs, outputColumn |-> ColY],
                         CHOOSE t \in ClassificationTrainings : t.raises # AllRunners("classification")) :
                  df \in CategoryTables, inputs \in {<<ColB>>, <<ColA, ColB>>}} :
        run.status = 0}

CategoryValues == {Num(1), Str(<<"r">>), Str(<<"s">>), Str(<<"z">>)}

EncodeInit ==
    /\ \E run \in CategoryRuns :
          /\ files = Put(EmptyDict, 1, run.model_data)
          /\ registry = Put(EmptyDict, 1, [run.model_entry EXCEPT !.modelId = 1])
          /\ \E features \in [Elems(run.model_data.input_columns) -> CategoryValues] :
                arg = [modelId |-> 1, features |-> features, userId |-> Null,
                       df |-> run.request.upload.df]
    /\ nextId = 2
    /\ last = Response("analyze", 200, "ok", 1)
    /\ okPredicts = Put(EmptyDict, 1, 0)
    /\ deletedIds = {}
    /\ pc = EmptyDict /\ local = EmptyDict
    /\ ret = [k |-> "pending"]

SpecEncode == EncodeInit /\ [][PredNext]_vars

-----------------------------------------------------------------------------
(* Several server processes on one MODELS_DIR and one REGISTRY_FILE. A     *)
(* handler has no await, so inside one process it runs to its end; between *)
(* processes the file-system calls interleave. Every file-system call      *)
(* succeeds here.                                                          *)

MaxWorkers == 2     \* server processes

Workers == 1..MaxWorkers

NoLocal == [model_id |-> 0, userId |-> Null, entry |-> None, registry |-> EmptyDict]

\* the identifiers some analyze call has written an artifact for and not yet
\* returned
Unreturned ==
    {local[w].model_id : w \in {v \in Workers : pc[v] \in {"analyze_load", "analyze_save"}}}

\* the predict calls that passed line 520 and have not returned
InFlight == Cardinality({w \in Workers : pc[w] \in {"predict_load", "predict_save"}})

ConcInit ==
    /\ files = EmptyDict /\ registry = EmptyDict /\ nextId = 1
    /\ last = Response("none", 0, "", 0) /\ okPredicts = EmptyDict /\ deletedIds = {}
    /\ pc = [w \in Workers |-> "idle"]
    /\ local = [w \in Workers |-> NoLocal]
    /\ arg = None /\ ret = None

\* analyze_data, lines 176-342: up to joblib.dump
ConcAnalyzeDump(w) ==
    /\ pc[w] = "idle"
    /\ \E run \in ServiceRuns :
          IF run.status # 0
              THEN /\ last' = Response("analyze", run.status, run.detail, 0)
                   /\ UNCHANGED <<files, nextId, pc, local>>
          ELSE /\ nextId <= MaxModels
               /\ nextId' = nextId + 1
               /\ files' = Put(files, nextId, run.model_data)
               /\ pc' = [pc EXCEPT ![w] = "analyze_load"]
               /\ local' = [local EXCEPT ![w] = [NoLocal EXCEPT !.model_id = nextId,
                                                                !.entry = run.model_entry]]
               /\ UNCHANGED last
    /\ UNCHANGED <<registry, okPredicts, deletedIds, funVars>>

\* line 345
ConcAnalyzeLoad(w) ==
    /\ pc[w] = "analyze_load"
    /\ local' = [local EXCEPT ![w].registry = load_model_registry(registry, TRUE)]
    /\ pc' = [pc EXCEPT ![w] = "analyze_save"]
    /\ UNCHANGED <<storeVars, funVars>>

\* lines 346-410
ConcAnalyzeSave(w) ==
    /\ pc[w] = "analyze_save"
    /\ registry' = save_model_registry(registry,
                       Put(local[w].registry, local[w].model_id,
                           [local[w].entry EXCEPT !.modelId = local[w].model_id]),
                       TRUE)
    /\ okPredicts' = Put(okPredicts, local[w].model_id, 0)
    /\ last' = Response("analyze", 200, "ok", local[w].model_id)
    /\ pc' = [pc EXCEPT ![w] = "idle"]
    /\ local' = [local EXCEPT ![w] = NoLocal]
    /\ UNCHANGED <<files, nextId, deletedIds, funVars>>

\* predict, lines 420-520: up to the measurements
ConcPredictRow(w) ==
    /\ pc[w] = "idle"
    /\ \E modelId \in ModelIds \ Unreturned :
       \E features \in FeatureMaps(IF modelId \in DOMAIN files
                                      THEN Elems(files[modelId].input_columns) ELSE {}) :
       \E userId \in UserIds :
       \E model_raises \in BOOLEAN :
          IF modelId \notin DOMAIN files
              THEN /\ last' = Response("predict", 404, "Model not found", modelId)
                   /\ UNCHANGED <<pc, local>>
          ELSE LET computed == PredictCompute(files[modelId], features, model_raises)
               IN  IF computed.status # 200
                       THEN /\ last' = Response("predict", computed.status,
                                                computed.detail, modelId)
                            /\ UNCHANGED <<pc, local>>
                   ELSE /\ TotalCalls(okPredicts) + InFlight < MaxCalls
                        /\ pc' = [pc EXCEPT ![w] = "predict_load"]
                        /\ local' = [local EXCEPT ![w] = [NoLocal EXCEPT
                                                             !.model_id = modelId,
                                                             !.userId = userId]]
                        /\ UNCHANGED last
    /\ UNCHANGED <<files, registry, nextId, okPredicts, deletedIds, funVars>>

\* line 523
ConcPredictLoad(w) ==
    /\ pc[w] = "predict_load"
    /\ local' = [local EXCEPT ![w].registry = load_model_registry(registry, TRUE)]
    /\ pc' = [pc EXCEPT ![w] = "predict_save"]
    /\ UNCHANGED <<storeVars, funVars>>

\* lines 524-556
ConcPredictSave(w) ==
    /\ pc[w] = "predict_save"
    /\ registry' = PredictDocument(registry, local[w].registry, local[w].model_id,
                                   local[w].userId, TRUE)
    /\ okPredicts' = Put(okPredicts, local[w].model_id,
                         Get(okPredicts, local[w].model_id, 0) + 1)
    /\ last' = Response("predict", 200, "ok", local[w].model_id)
    /\ pc' = [pc EXCEPT ![w] = "idle"]
    /\ local' = [local EXCEPT ![w] = NoLocal]
    /\ UNCHANGED <<files, nextId, deletedIds, funVars>>

ConcNext ==
    \E w \in Workers :
        \/ ConcAnalyzeDump(w)
        \/ ConcAnalyzeLoad(w)
        \/ ConcAnalyzeSave(w)
        \/ ConcPredictRow(w)
        \/ ConcPredictLoad(w)
        \/ ConcPredictSave(w)

SpecConc == ConcInit /\ [][ConcNext]_vars

-----------------------------------------------------------------------------
(* Server processes that predict on and delete the stored model of one     *)
(* analyze call                                                            *)

\* the store after one analyze call that returned
RaceInit ==
    /\ \E run \in {r \in ServiceRuns : r.status = 0} :
          /\ files = Put(EmptyDict, 1, run.model_data)
          /\ registry = Put(EmptyDict, 1, [run.model_entry EXCEPT !.modelId = 1])
    /\ nextId = 2
    /\ last = Response("analyze", 200, "ok", 1)
    /\ okPredicts = Put(EmptyDict, 1, 0)
    /\ deletedIds = {}
    /\ pc = [w \in Workers |-> "idle"]
    /\ local = [w \in Workers |-> NoLocal]
    /\ arg = None /\ ret = None

\* delete_model, lines 631-637: the registry is loaded and the model looked for
ConcDeleteLoad(w) ==
    /\ pc[w] = "idle"
    /\ \E model_id \in ModelIds :
          LET loaded == load_model_registry(registry, TRUE)
          IN  IF model_id \notin DOMAIN loaded /\ model_id \notin DOMAIN files
                  THEN /\ last' = Response("delete", 404, "Model not found", model_id)
                       /\ UNCHANGED <<pc, local>>
              ELSE /\ pc' = [pc EXCEPT ![w] = "delete_save"]
                   /\ local' = [local EXCEPT ![w] = [NoLocal EXCEPT
                                                        !.model_id = model_id,
                                                        !.registry = loaded]]
                   /\ UNCHANGED last
    /\ UNCHANGED <<files, registry, nextId, okPredicts, deletedIds, funVars>>

\* lines 640-642
ConcDeleteSave(w) ==
    /\ pc[w] = "delete_save"
    /\ registry' = IF local[w].model_id \in DOMAIN local[w].registry
                       THEN save_model_registry(registry,
                                Pop(local[w].registry, local[w].model_id), TRUE)
                       ELSE registry
    /\ pc' = [pc EXCEPT ![w] = "delete_remove"]
    /\ UNCHANGED <<files, nextId, last, okPredicts, deletedIds, local, funVars>>

\* lines 645-652
ConcDeleteRemove(w) ==
    /\ pc[w] = "delete_remove"
    /\ files' = IF local[w].model_id \in DOMAIN files
                    THEN Pop(files, local[w].model_id)
                    ELSE files
    /\ deletedIds' = deletedIds \cup {local[w].model_id}
    /\ last' = Response("delete", 200, "deleted", local[w].model_id)
    /\ pc' = [pc EXCEPT ![w] = "idle"]
    /\ local' = [local EXCEPT ![w] = NoLocal]
    /\ UNCHANGED <<registry, nextId, okPredicts, funVars>>

RaceNext ==
    \E w \in Workers :
        \/ ConcPredictRow(w)
        \/ ConcPredictLoad(w)
        \/ ConcPredictSave(w)
        \/ ConcDeleteLoad(w)
        \/ ConcDeleteSave(w)
        \/ ConcDeleteRemove(w)

SpecRace == RaceInit /\ [][RaceNext]_vars

-----------------------------------------------------------------------------
(* C1: for a non-empty classification candidate list the selector returns  *)
(* the candidate whose score 0.5*accuracy + 0.3*f1Score + 0.2*precision    *)
(* (a missing metric counting as 0) is maximal, and among several maximal  *)
(* candidates the first one in list order.                                 *)

C1_Score(c) ==
    (IF "accuracy" \in DOMAIN c.metrics THEN c.metrics["accuracy"] ELSE 0) * 5
    + (IF "f1Score" \in DOMAIN c.metrics THEN c.metrics["f1Score"] ELSE 0) * 3
    + (IF "precision" \in DOMAIN c.metrics THEN c.metrics["precision"] ELSE 0) * 2

C1_Returned(c) ==
    /\ ret.algorithm = c.algorithm
    /\ ret.metrics = c.metrics
    /\ ret.model = c.model
    /\ ret.trainingTime = c.trainingTime

C1_FirstMaximalSelected ==
    (ret.k = "best" /\ arg.problem_type = "classification") =>
        \E i \in 1..Len(arg.results) :
            /\ C1_Returned(arg.results[i])
            /\ \A j \in 1..Len(arg.results) :
                  C1_Score(arg.results[j]) <= C1_Score(arg.results[i])
            /\ \A j \in 1..(i - 1) :
                  C1_Score(arg.results[j]) < C1_Score(arg.results[i])

\* a selection among two candidates of equal maximal score and different metrics
C1_Witness ==
    /\ ret.k = "best" /\ arg.problem_type = "classification"
    /\ Len(arg.results) >= 2
    /\ C1_Score(arg.results[1]) = C1_Score(arg.results[2])
    /\ C1_Score(arg.results[1]) > 0
    /\ arg.results[1].metrics # arg.results[2].metrics
    /\ "precision" \notin DOMAIN arg.results[1].metrics

-----------------------------------------------------------------------------
(* C2: for every artifact that stores a scaler, predict applies that       *)
(* scaler to the encoded feature row before calling the model's            *)
(* prediction, whatever the column types are; in particular for a model    *)
(* trained by analyze on numeric-only input columns, whose stored encoder  *)
(* map is empty.                                                           *)

C2_ScalerApplied ==
    (/\ ret.k = "predicted"
     /\ ret.out.status = 200
     /\ files[arg.modelId].scaler # EmptyDict) =>
        ret.out.model_input = ScaleRow(files[arg.modelId].scaler, ret.out.encoded)

-----------------------------------------------------------------------------
(* C3: whenever preprocess_data rejects the data (empty input or output    *)
(* slice, regression target with no convertible value, every row missing   *)
(* an input, fewer than two samples, empty train or test split), analyze   *)
(* answers with a 4xx status carrying the preprocessor's message, trains   *)
(* no algorithm, and writes neither an artifact nor a registry entry.      *)

\* the request passed the validation of lines 223-260 and preprocess_data raised
\* one of its ValueErrors on it
C3_Rejected ==
    /\ ret.k = "run"
    /\ Validate(arg.request).status = 0
    /\ ~DuplicateInputs(arg.request)
    /\ ~Preprocessed(arg.request, arg.training).ok

C3_RejectionIsClientError ==
    C3_Rejected =>
        /\ last.op = "analyze"
        /\ last.status \in 400..499
        /\ last.detail = Preprocessed(arg.request, arg.training).error
        /\ ret.attempted = 0
        /\ files = EmptyDict
        /\ registry = EmptyDict

-----------------------------------------------------------------------------
(* C4: analyze rejects with status 400, before any preprocessing or        *)
(* training and without writing an artifact or registry entry, every       *)
(* request whose output column names the same dataset column as one of its *)
(* input columns, names being compared after the whitespace stripping that *)
(* analyze uses to look columns up.                                        *)

\* the upload is known, the problem type allowed, every column found, and the
\* output column is the dataset column of one of the input columns
C4_SameColumn ==
    /\ ret.k = "run"
    /\ arg.request.upload.known
    /\ arg.request.problemType \in {"classification", "regression"}
    /\ MissingInputs(arg.request) = <<>>
    /\ Strip(arg.request.outputColumn) \in DOMAIN NormalizedAvailable
    /\ ActualOutputColumn(arg.request) \in Elems(ActualInputColumns(arg.request))

C4_SameColumnRejected ==
    C4_SameColumn =>
        /\ last.op = "analyze"
        /\ last.status = 400
        /\ ~ret.preprocessed
        /\ ret.attempted = 0
        /\ files = EmptyDict
        /\ registry = EmptyDict

-----------------------------------------------------------------------------
(* C5: after delete_model has returned status 'deleted' for a model        *)
(* identifier, every later predict call with that identifier returns a 404 *)
(* 'Model not found' error.                                                *)

\* last is the latest response, so a predict response on an identifier of
\* deletedIds answers a call made after the delete returned
C5_PredictAfterDeleteNotFound ==
    (last.op = "predict" /\ last.modelId \in deletedIds) =>
        (last.status = 404 /\ last.detail = "Model not found")

-----------------------------------------------------------------------------
(* C6: delete_model returns 404 exactly when the identifier has neither an *)
(* artifact file nor a registry entry, and then changes nothing; in every  *)
(* other case, when it returns, both the artifact file and the registry    *)
(* entry of that identifier are gone and the artifacts and registry        *)
(* entries of all other identifiers are unchanged.                         *)

C6_OthersUnchanged(id) ==
    /\ DOMAIN files' \ {id} = DOMAIN files \ {id}
    /\ DOMAIN registry' \ {id} = DOMAIN registry \ {id}
    /\ \A other \in DOMAIN files \ {id} : files'[other] = files[other]
    /\ \A other \in DOMAIN registry \ {id} : registry'[other] = registry[other]

C6_DeleteStep ==
    last'.op = "delete" =>
        LET id == last'.modelId
        IN  /\ last'.status = 404 <=> (id \notin DOMAIN files /\ id \notin DOMAIN registry)
            /\ last'.status = 404 => (files' = files /\ registry' = registry)
            /\ last'.status # 404 =>
                  /\ id \notin DOMAIN files'
                  /\ id \notin DOMAIN registry'
                  /\ C6_OthersUnchanged(id)

C6_DeleteRemovesBoth == [][C6_DeleteStep]_vars

-----------------------------------------------------------------------------
(* C7: every analyze call that returns a modelId has, by the time it       *)
(* returns, written both an artifact and a registry entry under exactly    *)
(* that identifier, and the two agree on algorithm, problem type, input    *)
(* columns, output column and metrics; the new entry starts with           *)
(* totalCalls 0, no unique users, lastUsed empty, no resource samples and  *)
(* exactly one performance-history record.                                 *)

C7_Agree(model_data, entry) ==
    /\ entry.algorithm = model_data.algorithm
    /\ entry.problemType = model_data.problem_type
    /\ entry.inputColumns = model_data.input_columns
    /\ entry.outputColumn = model_data.output_column
    /\ entry.metrics = model_data.metrics

C7_Fresh(entry) ==
    /\ entry.usage.totalCalls = 0
    /\ entry.usage.uniqueUsers = {}
    /\ entry.usage.lastUsed = Null
    /\ entry.resourceMonitoring = <<>>
    /\ Len(entry.performanceHistory) = 1

C7_AnalyzePersistsBoth ==
    (last.op = "analyze" /\ last.status = 200) =>
        /\ last.modelId \in DOMAIN files
        /\ last.modelId \in DOMAIN registry
        /\ registry[last.modelId].modelId = last.modelId
        /\ C7_Agree(files[last.modelId], registry[last.modelId])
        /\ C7_Fresh(registry[last.modelId])

-----------------------------------------------------------------------------
(* C8: analyze never writes an artifact or a registry entry under an       *)
(* identifier that already has one: after any successful analyze, every    *)
(* artifact and every registry entry that existed before the call is still *)
(* present and unchanged.                                                  *)

C8_AnalyzeStep ==
    (last'.op = "analyze" /\ last'.status = 200) =>
        /\ last'.modelId \notin DOMAIN files
        /\ last'.modelId \notin DOMAIN registry
        /\ \A id \in DOMAIN files : id \in DOMAIN files' /\ files'[id] = files[id]
        /\ \A id \in DOMAIN registry :
              id \in DOMAIN registry' /\ registry'[id] = registry[id]

C8_AnalyzeKeepsExisting == [][C8_AnalyzeStep]_vars

-----------------------------------------------------------------------------
(* C9: in every execution where requests run one at a time, after each     *)
(* step the totalCalls of a model's registry entry equals the number of    *)
(* successful predict calls made on that model since analyze created it,   *)
(* and equals the number of its resourceMonitoring samples; each           *)
(* successful predict also sets lastUsed and, when a userId is given,      *)
(* makes that userId a member of uniqueUsers exactly once (uniqueUsers is  *)
(* unchanged when no userId is given).                                     *)

C9_Counted ==
    \A id \in DOMAIN registry' :
        /\ registry'[id].usage.totalCalls = Get(okPredicts', id, 0)
        /\ Len(registry'[id].resourceMonitoring) = registry'[id].usage.totalCalls

\* the userId of the request is one of UserIds, Null when none is given
C9_Used ==
    (last'.op = "predict" /\ last'.status = 200 /\ last'.modelId \in DOMAIN registry) =>
        /\ last'.modelId \in DOMAIN registry'
        /\ LET before == registry[last'.modelId].usage
               after == registry'[last'.modelId].usage
           IN  /\ after.lastUsed = Timestamp
               /\ \E userId \in UserIds :
                     after.uniqueUsers = IF userId = Null THEN before.uniqueUsers
                                         ELSE before.uniqueUsers \cup {userId}

C9_UsageCountsPredicts == [][C9_Counted /\ C9_Used]_vars

-----------------------------------------------------------------------------
(* C10: the registry read-modify-write is not atomic: when two predict     *)
(* calls on the same model are served concurrently (each loads the         *)
(* registry, updates its copy, then saves), there is an interleaving after *)
(* which totalCalls has grown by 1 instead of 2 and one resource sample is *)
(* missing; likewise two concurrent analyze calls can leave only one of    *)
(* the two new registry entries.                                           *)

\* what a save of predict leaves on disk is the copy the call loaded with its
\* own call counted, whatever was saved since the load
C10_PredictSaves(w) ==
    (pc[w] = "predict_save" /\ pc'[w] = "idle"
     /\ local[w].model_id \in DOMAIN local[w].registry) =>
        LET id == local[w].model_id
            copy == local[w].registry
        IN  /\ DOMAIN registry' = DOMAIN copy
            /\ registry'[id].usage.totalCalls = copy[id].usage.totalCalls + 1
            /\ Len(registry'[id].resourceMonitoring)
                   = Len(copy[id].resourceMonitoring) + 1
            /\ \A other \in DOMAIN copy \ {id} : registry'[other] = copy[other]

\* what a save of analyze leaves on disk is the copy the call loaded and its
\* own entry
C10_AnalyzeSaves(w) ==
    (pc[w] = "analyze_save" /\ pc'[w] = "idle") =>
        LET id == local[w].model_id
            copy == local[w].registry
        IN  /\ DOMAIN registry' = DOMAIN copy \cup {id}
            /\ \A other \in DOMAIN copy \ {id} : registry'[other] = copy[other]

C10_SavesWriteLoadedCopy ==
    [][\A w \in Workers : C10_PredictSaves(w) /\ C10_AnalyzeSaves(w)]_vars

\* both calls have returned: two analyze calls returned an identifier each and one
\* has no entry; two predict calls succeeded on the other, which counts one call
\* and holds one sample
C10_Witness ==
    /\ \A w \in Workers : pc[w] = "idle"
    /\ \E lost, kept \in DOMAIN okPredicts :
          /\ lost # kept
          /\ lost \in DOMAIN files /\ lost \notin DOMAIN registry
          /\ kept \in DOMAIN registry
          /\ okPredicts[kept] = 2
          /\ registry[kept].usage.totalCalls = 1
          /\ Len(registry[kept].resourceMonitoring) = 1

-----------------------------------------------------------------------------
(* C11: when predict uses an artifact with stored encoders and the         *)
(* request's value for an encoded column, taken as a string, is not in     *)
(* that column's training vocabulary, predict returns a 400 error whose    *)
(* message names the column and lists the valid vocabulary truncated to    *)
(* its first 20 values; it never maps the value to some code and never     *)
(* returns a prediction.                                                   *)

C11_Vocabulary(col) == files[arg.modelId].label_encoders[col]

\* the request gives encoded column col a value outside its vocabulary
C11_Unknown(col) ==
    /\ col \in DOMAIN files[arg.modelId].label_encoders
    /\ col \in DOMAIN arg.features
    /\ \A i \in 1..Len(C11_Vocabulary(col)) :
          C11_Vocabulary(col)[i] # CellStr(arg.features[col])

\* the 400 names col and lists the first 20 values of its vocabulary
C11_Told(col) ==
    /\ last.op = "predict" /\ last.status = 400
    /\ last.detail = "Invalid value for column"
    /\ ret.out.column = col
    /\ Len(ret.out.valid_values) = Min2(Len(C11_Vocabulary(col)), 20)
    /\ \A i \in 1..Len(ret.out.valid_values) :
          ret.out.valid_values[i] = C11_Vocabulary(col)[i]

C11_NoPrediction ==
    /\ last.op = "predict" /\ last.status = 400
    /\ ret.out.encoded = EmptyDict
    /\ ret.out.model_input = EmptyDict
    /\ okPredicts[arg.modelId] = 0

\* the claim as stated: whichever encoded column holds the unknown value
C11_UnknownValueRejected ==
    ret.k = "predicted" =>
        \A col \in Elems(files[arg.modelId].input_columns) :
            C11_Unknown(col) => (C11_Told(col) /\ C11_NoPrediction)

\* column col is accepted by the loop of lines 447-482
C11_Accepted(col) ==
    /\ col \in DOMAIN arg.features
    /\ IF col \in DOMAIN files[arg.modelId].label_encoders
           THEN \E i \in 1..Len(C11_Vocabulary(col)) :
                   C11_Vocabulary(col)[i] = CellStr(arg.features[col])
           ELSE \/ arg.features[col].k # "str"
                \/ arg.features[col].s = <<>>
                \/ ToNumeric(arg.features[col]).k = "num"

\* every input column has a value and col is the first, in stored column order,
\* whose value is not accepted
C11_FirstRejected(col) ==
    LET input_columns == files[arg.modelId].input_columns
    IN  /\ \A i \in 1..Len(input_columns) : input_columns[i] \in DOMAIN arg.features
        /\ \E i \in 1..Len(input_columns) :
              /\ input_columns[i] = col
              /\ \A j \in 1..(i - 1) : C11_Accepted(input_columns[j])

\* amended: an unknown value of any encoded column yields a 400 and no
\* prediction; the 400 names the column and lists its vocabulary when the column
\* is the first rejected one of a request that has a value for every input column
C11_FirstUnknownValueRejected ==
    ret.k = "predicted" =>
        \A col \in Elems(files[arg.modelId].input_columns) :
            C11_Unknown(col) =>
                /\ C11_NoPrediction
                /\ C11_FirstRejected(col) => C11_Told(col)

\* an unknown value for a column whose vocabulary is longer than the list
C11_Witness ==
    /\ ret.k = "predicted"
    /\ \E col \in Elems(files[arg.modelId].input_columns) :
          /\ C11_Unknown(col)
          /\ C11_FirstRejected(col)
          /\ Len(C11_Vocabulary(col)) > 20
          /\ ret.out.ellipsis

-----------------------------------------------------------------------------
(* C12: when the artifact's encoder map is absent or empty, predict        *)
(* requires every input column's value to be numeric: it returns a 400     *)
(* error naming the first input column (in stored column order) whose      *)
(* value cannot be converted to a number, and otherwise feeds the numeric  *)
(* values to the model.                                                    *)

\* the artifact has no encoder and the request a value for every input column
C12_Legacy ==
    /\ ret.k = "predicted"
    /\ files[arg.modelId].label_encoders = EmptyDict
    /\ \A col \in Elems(files[arg.modelId].input_columns) : col \in DOMAIN arg.features

\* the value is a number, or a string that spells one
C12_Numeric(value) ==
    \/ value.k = "num"
    \/ value.k = "str" /\ value.s # <<>> /\ \A i \in 1..Len(value.s) : value.s[i] \in Digits

C12_NumberOf(value) == IF value.k = "num" THEN value.n ELSE DigitsValue(value.s)

C12_LegacyRequiresNumeric ==
    C12_Legacy =>
        LET input_columns == files[arg.modelId].input_columns
            bad == {i \in 1..Len(input_columns) :
                       ~C12_Numeric(arg.features[input_columns[i]])}
        IN  IF bad # {}
                THEN /\ last.op = "predict" /\ last.status = 400
                     /\ last.detail = "Column must be numeric"
                     /\ \E i \in bad : /\ ret.out.column = input_columns[i]
                                       /\ \A j \in bad : i <= j
                ELSE /\ last.op = "predict" /\ last.status \in {200, 500}
                     /\ last.status = 200 =>
                           /\ ret.out.nan_input = {}
                           /\ ret.out.model_input =
                                 [col \in Elems(input_columns) |->
                                     Plain(C12_NumberOf(arg.features[col]))]

-----------------------------------------------------------------------------
(* C13: train_all_classification_algorithms and                            *)
(* train_all_regression_algorithms attempt every algorithm of their roster *)
(* exactly once, in roster order, whether or not earlier ones failed, and  *)
(* return exactly the results of the algorithms that did not raise, in     *)
(* roster order; when every algorithm raises the list is empty and analyze *)
(* answers with the distinct error 'No algorithms could be trained' and    *)
(* persists nothing.                                                       *)

\* the call reached the batch runner: the request is valid and preprocess_data
\* returned a train and a test part
C13_Trained ==
    /\ ret.k = "run"
    /\ Validate(arg.request).status = 0
    /\ Preprocessed(arg.request, arg.training).ok

C13_Roster ==
    IF arg.request.problemType = "classification" THEN ClassificationRoster
    ELSE RegressionRoster

C13_Succeeds(name) == name \notin arg.training.raises

C13_EveryRunnerTriedOnce ==
    C13_Trained =>
        /\ ret.calls = C13_Roster
        /\ ret.results = SelectSeq(C13_Roster, C13_Succeeds)
        /\ (\A i \in 1..Len(C13_Roster) : ~C13_Succeeds(C13_Roster[i])) =>
              /\ ret.results = <<>>
              /\ last.op = "analyze" /\ last.status = 500
              /\ last.detail = "No algorithms could be trained"
              /\ files = EmptyDict /\ registry = EmptyDict
        /\ last.detail = "No algorithms could be trained" => ret.results = <<>>

\* the first runner raised, later ones did too, and the call still returned a
\* model
C13_Witness ==
    /\ C13_Trained
    /\ ~C13_Succeeds(C13_Roster[1])
    /\ Len(ret.results) \in 1..(Len(C13_Roster) - 2)
    /\ ret.results[Len(ret.results)] = C13_Roster[Len(C13_Roster)]
    /\ last.status = 200

-----------------------------------------------------------------------------
(* C14: for every non-empty candidate list with problem type 'regression', *)
(* select_best_algorithm returns the first candidate in list order that    *)
(* maximises 0.6*r2Score + 0.4*(1 - n), where n = min(candidate RMSE /     *)
(* largest RMSE among all candidates, 1), and n is 1 for every candidate   *)
(* when the largest RMSE is 0 (so no division by zero occurs).             *)

C14_R2(c) == IF "r2Score" \in DOMAIN c.metrics THEN c.metrics["r2Score"] ELSE 0

C14_Rmse(c) ==
    IF "rootMeanSquaredError" \in DOMAIN c.metrics
        THEN c.metrics["rootMeanSquaredError"] ELSE 0

\* the largest RMSE among the candidates
C14_Largest ==
    CHOOSE m \in {C14_Rmse(arg.results[i]) : i \in 1..Len(arg.results)} :
        \A i \in 1..Len(arg.results) : C14_Rmse(arg.results[i]) <= m

\* 10 * largest * (0.6*r2 + 0.4*(1 - n)), or 10 * 0.6*r2 when the largest RMSE is
\* 0 and n is 1; defined for the candidates whose r2Score is a number
C14_Score(c) ==
    IF C14_Largest = 0 THEN 6 * C14_R2(c)
    ELSE 6 * C14_R2(c) * C14_Largest
         + 4 * (C14_Largest - (IF C14_Rmse(c) <= C14_Largest THEN C14_Rmse(c)
                               ELSE C14_Largest))

\* score(a) > score(b) in float arithmetic: False when either is NaN
C14_Greater(a, b) ==
    C14_R2(a) # FloatNaN /\ C14_R2(b) # FloatNaN /\ C14_Score(a) > C14_Score(b)

C14_FirstMaximalRegression ==
    (ret.k # "pending" /\ arg.problem_type = "regression" /\ arg.results # <<>>) =>
        /\ ret.k = "best"
        /\ \E i \in 1..Len(arg.results) :
              /\ C1_Returned(arg.results[i])
              /\ \A j \in 1..Len(arg.results) :
                    ~C14_Greater(arg.results[j], arg.results[i])
              /\ \A j \in 1..(i - 1) :
                    \/ C14_Greater(arg.results[i], arg.results[j])
                    \/ C14_R2(arg.results[j]) = FloatNaN

-----------------------------------------------------------------------------
(* C15: if one candidate's dominant metric (accuracy for classification,   *)
(* r2Score for regression) is raised while all its other metrics and all   *)
(* other candidates are left unchanged, then every candidate that it       *)
(* outscored or tied before the change it still outscores or ties after    *)
(* it; in particular a candidate selected by select_best_algorithm before  *)
(* the change is still selected after it.                                  *)

\* both selections were made: local holds the list and the selection of before,
\* arg and ret those of after
C15_Compared == local.raised # 0 /\ ret.k # "pending"

\* score(i) >= score(j) on list results, in float arithmetic
C15_OutscoresOrTies(results, i, j) ==
    /\ ScoreOf(results, i, arg.problem_type) # FloatNaN
    /\ ScoreOf(results, j, arg.problem_type) # FloatNaN
    /\ ScoreOf(results, i, arg.problem_type) >= ScoreOf(results, j, arg.problem_type)

C15_RaisingKeepsRank ==
    C15_Compared =>
        /\ \A j \in 1..Len(arg.results) :
              C15_OutscoresOrTies(local.before, local.raised, j)
                  => C15_OutscoresOrTies(arg.results, local.raised, j)
        /\ (/\ local.selected.k = "best"
            /\ local.selected.algorithm = local.before[local.raised].algorithm) =>
              /\ ret.k = "best"
              /\ ret.algorithm = arg.results[local.raised].algorithm
              /\ ret.metrics = arg.results[local.raised].metrics

\* the first of two candidates of equal score was selected, had its dominant
\* metric raised and is selected again
C15_Witness ==
    /\ C15_Compared
    /\ local.raised = 1
    /\ Len(arg.results) = 2
    /\ ScoreOf(local.before, 1, arg.problem_type)
           = ScoreOf(local.before, 2, arg.problem_type)
    /\ local.selected.k = "best"
    /\ local.selected.algorithm = local.before[1].algorithm
    /\ ret.k = "best"
    /\ ret.metrics # local.selected.metrics

-----------------------------------------------------------------------------
(* C16: for every input on which preprocess_data succeeds, the train and   *)
(* test parts are both non-empty and disjoint, the feature part and the    *)
(* target part of each have the same rows in the same order, and the       *)
(* number of train rows plus the number of test rows equals the number of  *)
(* rows that survived filtering (rows with a present target and, for       *)
(* regression, a convertible target).                                      *)

C16_Succeeded == ret.k = "preprocessed" /\ ret.out.ok

\* the target of row i of the table
C16_Target(i) == arg.df[i][arg.output_column]

C16_IsNumber(string) ==
    string # <<>> /\ \A m \in 1..Len(string) : string[m] \in Digits

\* the target of row i is a number, or a string that spells one
C16_Direct(i) ==
    \/ C16_Target(i).k = "num"
    \/ C16_Target(i).k = "str" /\ C16_IsNumber(C16_Target(i).s)

\* the target of row i converts: directly, or, when the target of no row does,
\* by the number embedded in its string
C16_Convertible(i) ==
    IF \E j \in 1..Len(arg.df) : C16_Direct(j) THEN C16_Direct(i)
    ELSE /\ C16_Target(i).k = "str"
         /\ \E m \in 1..Len(C16_Target(i).s) : C16_Target(i).s[m] \in Digits

\* the rows that survive the filtering
C16_Survivors ==
    {i \in 1..Len(arg.df) :
        /\ C16_Target(i).k # "nan"
        /\ arg.problem_type = "regression" => C16_Convertible(i)}

C16_Rows(part) == {part[r].i : r \in 1..Len(part)}

C16_SameRows(X, y) ==
    /\ Len(X) = Len(y)
    /\ \A r \in 1..Len(X) : X[r].i = y[r].i
    /\ Cardinality(C16_Rows(X)) = Len(X)

C16_SplitCoversSurvivors ==
    C16_Succeeded =>
        /\ Len(ret.out.X_train) > 0 /\ Len(ret.out.X_test) > 0
        /\ C16_Rows(ret.out.X_train) \cap C16_Rows(ret.out.X_test) = {}
        /\ C16_SameRows(ret.out.X_train, ret.out.y_train)
        /\ C16_SameRows(ret.out.X_test, ret.out.y_test)
        /\ Len(ret.out.X_train) + Len(ret.out.X_test) = Cardinality(C16_Survivors)
        /\ C16_Rows(ret.out.X_train) \cup C16_Rows(ret.out.X_test) = C16_Survivors

\* a success on a table of which one row was filtered out and another had a
\* missing input filled
C16_Witness ==
    /\ C16_Succeeded
    /\ Cardinality(C16_Survivors) < Len(arg.df)
    /\ \E i \in C16_Survivors : arg.df[i][ColA].k = "nan"
    /\ Len(ret.out.X_train) = 1 /\ Len(ret.out.X_test) = 1

-----------------------------------------------------------------------------
(* C17: for a regression target, preprocess_data tries the extraction of   *)
(* an embedded number from each string value only when direct numeric      *)
(* conversion yields no valid value at all; it raises a validation error   *)
(* naming the output column exactly when no value converts by either       *)
(* route; otherwise it drops exactly the rows whose target did not convert *)
(* and keeps the feature rows of exactly the surviving targets.            *)

\* the rows whose target is present
C17_Present == {i \in 1..Len(arg.df) : C16_Target(i).k # "nan"}

\* a regression on a table that has a target value
C17_Regression ==
    /\ ret.k = "preprocessed"
    /\ arg.problem_type = "regression"
    /\ C17_Present # {}

\* the number embedded in a string: its first run of digits
C17_Embedded(string) ==
    LET first == CHOOSE m \in 1..Len(string) :
                     string[m] \in Digits /\ \A n \in 1..(m - 1) : string[n] \notin Digits
        stop == CHOOSE m \in first..Len(string) :
                    /\ \A n \in first..m : string[n] \in Digits
                    /\ (m = Len(string) \/ string[m + 1] \notin Digits)
    IN  DigitsValue(SubSeq(string, first, stop))

\* the number the target of a convertible row converts to
C17_Number(i) ==
    IF C16_Target(i).k = "num" THEN C16_Target(i).n
    ELSE IF C16_Direct(i) THEN DigitsValue(C16_Target(i).s)
    ELSE C17_Embedded(C16_Target(i).s)

C17_Kept(X, y) ==
    \A r \in 1..Len(y) :
        /\ y[r].y = C17_Number(y[r].i)
        /\ X[r].i = y[r].i
        /\ arg.df[X[r].i][ColA].k = "num" =>
              X[r].x[ColA].value = arg.df[X[r].i][ColA].n

C17_InvalidTarget == "All values in the output column are invalid for regression"

C17_ExtractionOnlyAsFallback ==
    C17_Regression =>
        /\ ret.out.error = C17_InvalidTarget
              <=> \A i \in C17_Present : ~C16_Convertible(i)
        /\ ret.out.error = C17_InvalidTarget => ret.out.column = arg.output_column
        /\ ret.out.ok =>
              /\ C16_Rows(ret.out.y_train) \cup C16_Rows(ret.out.y_test)
                    = {i \in C17_Present : C16_Convertible(i)}
              /\ C17_Kept(ret.out.X_train, ret.out.y_train)
              /\ C17_Kept(ret.out.X_test, ret.out.y_test)

\* no target converts directly, two convert by extraction and the third row is
\* dropped
C17_Witness ==
    /\ C17_Regression
    /\ ret.out.ok
    /\ \A i \in C17_Present : ~C16_Direct(i)
    /\ \E i \in C17_Present : ~C16_Convertible(i)
    /\ Len(ret.out.y_train) + Len(ret.out.y_test) = 2
    /\ ret.out.y_train[1].y = 7

-----------------------------------------------------------------------------
(* C18: the k-nearest-neighbors runners (classifier and regressor) use     *)
(* k = clamp(round(sqrt(train_size)), 3, 20) for every training-set size,  *)
(* i.e. the square root rounded to the nearest integer and then limited to *)
(* the range 3..20.                                                        *)

\* r is the square root of n rounded to the nearest integer: |r - sqrt(n)| < 1/2
C18_IsRoundedRoot(r, n) ==
    /\ r >= 0
    /\ (2 * r - 1) * (2 * r - 1) < 4 * n \/ r = 0
    /\ 4 * n < (2 * r + 1) * (2 * r + 1)

C18_Clamp(r) == IF r < 3 THEN 3 ELSE IF r > 20 THEN 20 ELSE r

C18_KIsRoundedRoot ==
    ret.k = "estimator" =>
        \E r \in 0..arg.train_size :
            /\ C18_IsRoundedRoot(r, arg.train_size)
            /\ ret.n_neighbors = C18_Clamp(r)

-----------------------------------------------------------------------------
(* C19: for every categorical input column and every value that occurred   *)
(* in that column of the analyzed data (as a string), predict encodes the  *)
(* value to an integer code c such that the stored vocabulary of that      *)
(* column at position c is the original value; distinct seen values        *)
(* receive distinct codes.                                                 *)

\* the categorical input columns of the analyzed table
C19_Categorical ==
    {col \in Elems(files[arg.modelId].input_columns) :
        \E i \in 1..Len(arg.df) : arg.df[i][col].k = "str"}

\* the request's value for col, as a string, is the value of col in row i
C19_ValueOfRow(col, i) ==
    /\ arg.df[i][col].k = "str"
    /\ arg.features[col].k = "str"
    /\ arg.features[col].s = arg.df[i][col].s

\* predict took the value of col: it did not reject it, and its code is the
\* position of the value in the stored vocabulary (positions counted from 0),
\* where no other position holds the value
C19_RoundTrip(col) ==
    LET classes == files[arg.modelId].label_encoders[col]
    IN  /\ ~(ret.out.status = 400 /\ ret.out.column = col)
        /\ ret.out.status = 200 =>
              /\ ret.out.encoded[col] \in 0..(Len(classes) - 1)
              /\ classes[ret.out.encoded[col] + 1] = arg.features[col].s
              /\ \A c \in 1..Len(classes) :
                    classes[c] = arg.features[col].s => c = ret.out.encoded[col] + 1

-----------------------------------------------------------------------------
(* C20: a successful predict response carries class probabilities exactly  *)
(* when the artifact's problem type is 'classification' and its model      *)
(* offers a probability call; for a regression artifact, or a model        *)
(* without that call, the probabilities field is empty.                    *)

C20_Successful == ret.k = "predicted" /\ ret.out.status = 200

\* the artifact the call loaded
C20_Artifact == files[arg.modelId]

C20_ProbabilitiesExactlyForClassifiers ==
    C20_Successful =>
        /\ ret.out.probabilities <=>
              (/\ C20_Artifact.problem_type = "classification"
               /\ C20_Artifact.model.predict_proba)
        /\ (C20_Artifact.problem_type = "regression" \/ ~C20_Artifact.model.predict_proba)
              => (~ret.out.probabilities /\ ret.out.proba_input = EmptyDict)
        /\ ret.out.probabilities => DOMAIN ret.out.proba_input = Elems(C20_Artifact.input_columns)

\* a classifier answered with probabilities
C20_Witness ==
    /\ C20_Successful
    /\ C20_Artifact.problem_type = "classification"
    /\ C20_Artifact.model.predict_proba
    /\ ret.out.probabilities

-----------------------------------------------------------------------------
(* C21: after any sequence of analyze, predict and delete calls executed   *)
(* one at a time with no file-system failure, the set of model identifiers *)
(* that have a registry entry equals the set of model identifiers that     *)
(* have an artifact file.                                                  *)

C21_RegistryMatchesArtifacts == DOMAIN registry = DOMAIN files

\* every entry is filed under its own identifier
C21_EntriesKeyed == \A id \in DOMAIN registry : registry[id].modelId = id

C21_RegistryAndArtifactsAgree == C21_RegistryMatchesArtifacts /\ C21_EntriesKeyed

\* two models were stored, one was used and is still there, the other was deleted
C21_Witness ==
    /\ nextId = 3
    /\ Cardinality(deletedIds) = 1
    /\ DOMAIN files = {1, 2} \ deletedIds
    /\ DOMAIN registry = DOMAIN files
    /\ \E id \in DOMAIN registry : registry[id].usage.totalCalls > 0
    /\ last.op = "delete" /\ last.status = 200

-----------------------------------------------------------------------------
(* C22: once delete_model has returned 'deleted' for a model identifier,   *)
(* the registry never again contains an entry for that identifier, under   *)
(* every interleaving with predict calls on the same identifier that were  *)
(* in progress (between their registry load and their registry save) when  *)
(* the delete ran.                                                         *)

C22_DeletedStaysOut == \A id \in deletedIds : id \notin DOMAIN registry

-----------------------------------------------------------------------------
(* C23: a predict call that ends in an error (unknown model, missing       *)
(* feature, unseen categorical value, non-numeric value, or a failure      *)
(* inside the model) leaves the registry unchanged: totalCalls,            *)
(* uniqueUsers, lastUsed and resourceMonitoring of every entry are exactly *)
(* as before the call, and every artifact is unchanged.                    *)

\* the step is a predict call that answered an error
C23_PredictError == last'.op = "predict" /\ last'.status # 200

C23_EntriesKept ==
    /\ DOMAIN registry' = DOMAIN registry
    /\ \A id \in DOMAIN registry :
          /\ registry'[id].usage.totalCalls = registry[id].usage.totalCalls
          /\ registry'[id].usage.uniqueUsers = registry[id].usage.uniqueUsers
          /\ registry'[id].usage.lastUsed = registry[id].usage.lastUsed
          /\ registry'[id].resourceMonitoring = registry[id].resourceMonitoring
          /\ registry'[id] = registry[id]

C23_ErrorLeavesStore ==
    [][C23_PredictError => (C23_EntriesKept /\ files' = files)]_vars

\* the model refused the row of a model that had been used before
C23_Witness ==
    /\ last.op = "predict" /\ last.status = 500
    /\ last.modelId \in DOMAIN registry
    /\ registry[last.modelId].usage.totalCalls = 1
    /\ Len(registry[last.modelId].resourceMonitoring) = 1
    /\ registry[last.modelId].usage.uniqueUsers = {"u1"}

-----------------------------------------------------------------------------
(* C24: for a classification artifact, the class probabilities returned by *)
(* predict are computed from the same encoded-and-scaled feature row that  *)
(* the returned prediction was computed from.                              *)

\* value - mean of a feature value, as numerator and denominator
C24_Centered(x) == <<x.value * x.mean[2] - x.mean[1], x.mean[2]>>

\* scale_ squared: var_, and 1 where var_ is 0
C24_ScaleSquared(x) == IF x.var[1] = 0 THEN <<1, 1>> ELSE x.var

C24_Sign(n) == IF n > 0 THEN 1 ELSE IF n < 0 THEN 0 - 1 ELSE 0

\* (value - mean) / scale_ is the same number for x and y
C24_SameNumber(x, y) ==
    LET a == C24_Centered(x)
        b == C24_Centered(y)
        u == C24_ScaleSquared(x)
        w == C24_ScaleSquared(y)
    IN  /\ C24_Sign(a[1]) = C24_Sign(b[1])
        /\ a[1] * a[1] * w[1] * b[2] * b[2] * u[2]
              = b[1] * b[1] * u[1] * a[2] * a[2] * w[2]

C24_ProbabilitiesFromPredictedRow ==
    (/\ ret.k = "predicted"
     /\ ret.out.status = 200
     /\ files[arg.modelId].problem_type = "classification"
     /\ ret.out.probabilities) =>
        /\ DOMAIN ret.out.proba_input = DOMAIN ret.out.model_input
        /\ \A col \in DOMAIN ret.out.model_input :
              C24_SameNumber(ret.out.model_input[col], ret.out.proba_input[col])

====
